---- MODULE Spec2Model ----
(***************************************************************************)
(* Model of the architecture-graph builder of backend/app/main.py:         *)
(* graph accumulation, the three filter stages of arch_graph (language,    *)
(* edge weight, node cap) and the commit-keyed LRU result cache.           *)
(*                                                                         *)
(* Node ids are modelled as integers: a file's module id is its index,     *)
(* an external package id is 100 + its index.                              *)
(***************************************************************************)
EXTENDS Integers, Sequences, FiniteSets, TLC

VARIABLES
    repo,        \* the checked-out files the build samples: a sequence of files
    req,         \* the query parameters of the last build: lang, min_weight, node_cap
    resp,        \* the document the last build returned
    accum,       \* the accumulators of a build in progress
    todo,        \* the observations that build has still to make, in order
    walk,        \* the walk over the cloned tree: position, buckets, counts
    resolved,    \* one import specifier, its context, and the id it resolved to
    cache,       \* _ARCH_CACHE: the dict's items, in insertion order
    th,          \* per thread: where it is in a _cache_get / _cache_set call
    clock,       \* history: number of cache calls made so far
    last_access, \* history: key -> clock of its last set or successful get
    last_hit,    \* history: the key of the last successful get (0: none)
    evict,       \* history: what the last eviction removed
    gone,        \* history: keys evicted and not stored again by a _cache_set
    reinserted,  \* history: a _cache_get has put back a key that was evicted
    head,        \* repository name -> commit SHA of its default branch
    rq,          \* per thread: the arch_graph request it is serving
    tmpdirs,     \* the temporary checkouts that exist (named by their thread)
    origin_of    \* history: cache key -> owner/name, SHA, max_files it was stored for

filterVars == <<repo, req, resp, accum, todo, walk, resolved>>
seqVars == <<clock, last_access, last_hit, evict>>
cacheVars == <<cache, th, clock, last_access, last_hit, evict, gone, reinserted>>
reqVars == <<head, rq, tmpdirs, origin_of>>
vars ==
    <<repo, req, resp, accum, todo, walk, resolved, cache, th, clock, last_access, last_hit,
      evict, gone, reinserted, head, rq, tmpdirs, origin_of>>

(***************************************************************************)
(* Bounds of the model                                                     *)
(***************************************************************************)
MaxInternal == 11
MaxExternal == 2
MaxWeight == 2
MaxOps == 3
MaxNewKeys == 2
MaxStmts == 2

(***************************************************************************)
(* Small helpers                                                           *)
(***************************************************************************)
Max(a, b) == IF a >= b THEN a ELSE b
Min(a, b) == IF a <= b THEN a ELSE b

Range(s) == {s[i] : i \in DOMAIN s}

RECURSIVE Sorted(_)
\* sorted(S): the elements of a finite set of ids in ascending order
Sorted(S) ==
    IF S = {} THEN <<>>
    ELSE LET m == CHOOSE x \in S : \A y \in S : x <= y
         IN <<m>> \o Sorted(S \ {m})

RECURSIVE Repeat(_, _)
Repeat(x, n) == IF n <= 0 THEN <<>> ELSE <<x>> \o Repeat(x, n - 1)

(***************************************************************************)
(* Graph accumulation (arch_graph, lines 2091-2201)                        *)
(* A file is [lang, id, imports, readable]; its text is the list of its    *)
(* import statements, one per line, and nothing else.  A statement is      *)
(* [dst, rel, kind]: the target id it names, whether the specifier is      *)
(* relative/rooted, and its form: "from" (from X import z) or "import"     *)
(* (import X) in python, "es" (import ... from 'X') or "require"           *)
(* (require('X')) in JS/TS.  readable is whether the text can be read.     *)
(* A JS/TS file also has deps: the versions its nearest package.json       *)
(* declares, by package.  node_meta[n] is the node's "lang" entry and       *)
(* node_pkg[n] its "pkg" entry.                                             *)
(***************************************************************************)
EmptyAcc ==
    [nodes_set |-> {}, internal_nodes |-> {}, node_meta |-> <<>>,
     node_pkg |-> <<>>, edges_map |-> <<>>]

\* a plain assignment node_meta[n]["lang"] = l in place of setdefault: the
\* last writer wins
SetDefaultLang_Assign(node_meta, n, l) ==
    [m \in DOMAIN node_meta \cup {n} |-> IF m = n THEN l ELSE node_meta[m]]

\* node_meta.setdefault(n, {}).setdefault("lang", l): first writer wins
SetDefaultLang(node_meta, n, l) ==
    IF n \in DOMAIN node_meta THEN node_meta ELSE node_meta @@ (n :> l)

\* edges_map[(s, d)] = edges_map.get((s, d), 0) + 1, keeping insertion order
IncEdge(edges_map, s, d) ==
    IF \E i \in DOMAIN edges_map : edges_map[i].src = s /\ edges_map[i].dst = d
    THEN LET i == CHOOSE j \in DOMAIN edges_map :
                      edges_map[j].src = s /\ edges_map[j].dst = d
         IN [edges_map EXCEPT ![i].w = @ + 1]
    ELSE Append(edges_map, [src |-> s, dst |-> d, w |-> 1])

\* first loop over py_files: every module is a node, internal, tagged python
PyDeclare(acc, f) ==
    [acc EXCEPT !.nodes_set = @ \cup {f.id},
                !.internal_nodes = @ \cup {f.id},
                !.node_meta = SetDefaultLang(@, f.id, "python")]

\* one matched python import: edge weight + 1, target node, tagged python
PyImport(acc, mod, imp) ==
    [acc EXCEPT !.edges_map = IncEdge(@, mod, imp.dst),
                !.nodes_set = @ \cup {imp.dst},
                !.node_meta = SetDefaultLang(@, imp.dst, "python")]

\* a JS/TS source file: node, internal, tagged js
JsDeclare(acc, f) ==
    [acc EXCEPT !.nodes_set = @ \cup {f.id},
                !.internal_nodes = @ \cup {f.id},
                !.node_meta = SetDefaultLang(@, f.id, "js")]

\* the package branch of both JS loops: a target with a declared version that
\* has no metadata yet gets {"pkg": {...}, "lang": "npm"}; any other target
\* gets the npm tag unless it is tagged already
NpmMeta(acc, deps, dst) ==
    IF dst \in DOMAIN deps /\ dst \notin DOMAIN acc.node_meta
    THEN [acc EXCEPT !.node_meta = @ @@ (dst :> "npm"),
                     !.node_pkg = @ @@ (dst :> [manager |-> "npm", name |-> dst,
                                               version |-> deps[dst]])]
    ELSE [acc EXCEPT !.node_meta = SetDefaultLang(@, dst, "npm")]

\* one matched require("spec"): relative targets are internal and tagged js,
\* package targets go through the package branch
JsRequire(acc, f, imp) ==
    LET a1 == [acc EXCEPT !.edges_map = IncEdge(@, f.id, imp.dst),
                          !.nodes_set = @ \cup {imp.dst}]
    IN IF imp.rel
       THEN [a1 EXCEPT !.internal_nodes = @ \cup {imp.dst},
                       !.node_meta = SetDefaultLang(@, imp.dst, "js")]
       ELSE NpmMeta(a1, f.deps, imp.dst)

\* one matched ES import: the target is tagged js (line 2173) before the
\* specifier is looked at, then package targets go through the package branch
JsImportEs(acc, f, imp) ==
    LET a1 == [acc EXCEPT !.edges_map = IncEdge(@, f.id, imp.dst),
                          !.nodes_set = @ \cup {imp.dst},
                          !.node_meta = SetDefaultLang(@, imp.dst, "js")]
    IN IF imp.rel
       THEN [a1 EXCEPT !.internal_nodes = @ \cup {imp.dst}]
       ELSE NpmMeta(a1, f.deps, imp.dst)

\* The name an `import X` match captures is [\w\.\,\s]+, which runs over line
\* ends and over the words of the statements that follow: the match takes
\* the rest of the text, and the target is X glued to that text.  A glued
\* name sorts after X; its id is X's id followed by one base-GlueBase digit
\* per swallowed statement (0 for none), which keeps the order of the names.
GlueBase == 400
StmtCode(imp) == imp.dst + (IF imp.kind = "from" THEN 0 ELSE GlueBase \div 2)

RECURSIVE GlueTail(_, _, _)
GlueTail(imports, j, left) ==
    IF left = 0 THEN 0
    ELSE (IF j <= Len(imports) THEN StmtCode(imports[j]) ELSE 0)
             * GlueBase ^ (left - 1)
         + GlueTail(imports, j + 1, left - 1)

GluedId(imports, i) ==
    imports[i].dst * GlueBase ^ (MaxStmts - 1)
    + GlueTail(imports, i + 1, MaxStmts - 1)

RECURSIVE PyMatched(_, _)
\* import_re.finditer(src): the targets of the successive matches from
\* statement i on.  A from-statement is one match; an import-statement is one
\* match that ends the text, clean only when it is the last statement.
PyMatched(imports, i) ==
    IF i > Len(imports) THEN <<>>
    ELSE IF imports[i].kind = "from"
         THEN <<imports[i]>> \o PyMatched(imports, i + 1)
         ELSE IF i = Len(imports) THEN <<imports[i]>>
              ELSE <<[imports[i] EXCEPT !.dst = GluedId(imports, i)]>>

\* js_import_es.finditer(src), then js_require.finditer(src)
JsMatched(imports) ==
    SelectSeq(imports, LAMBDA imp : imp.kind = "es")
    \o SelectSeq(imports, LAMBDA imp : imp.kind = "require")

\* The folds below walk a list exactly as the loops of the source do; each
\* step's accumulator is compared with itself only to have it evaluated
\* before the next step.
RECURSIVE FoldImports(_, _, _, _)
FoldImports(acc, f, matched, i) ==
    IF i > Len(matched) \/ ~f.readable THEN acc
    ELSE LET next == CASE f.lang = "python" -> PyImport(acc, f.id, matched[i])
                       [] matched[i].kind = "es" ->
                              JsImportEs(acc, f, matched[i])
                       [] OTHER -> JsRequire(acc, f, matched[i])
         IN IF next = next THEN FoldImports(next, f, matched, i + 1) ELSE acc

RECURSIVE FoldDeclare(_, _, _)
FoldDeclare(acc, files, i) ==
    IF i > Len(files) THEN acc
    ELSE LET next == PyDeclare(acc, files[i])
         IN IF next = next THEN FoldDeclare(next, files, i + 1) ELSE acc

RECURSIVE FoldPy(_, _, _)
FoldPy(acc, files, i) ==
    IF i > Len(files) THEN acc
    ELSE LET next == FoldImports(acc, files[i], PyMatched(files[i].imports, 1), 1)
         IN IF next = next THEN FoldPy(next, files, i + 1) ELSE acc

RECURSIVE FoldJs(_, _, _)
FoldJs(acc, files, i) ==
    IF i > Len(files) THEN acc
    ELSE LET next == FoldImports(JsDeclare(acc, files[i]), files[i],
                                  JsMatched(files[i].imports), 1)
         IN IF next = next THEN FoldJs(next, files, i + 1) ELSE acc

\* str.strip() on the selectors used here
Strip(lang) ==
    CASE lang = " all " -> "all"
      [] lang = " python " -> "python"
      [] OTHER -> lang

\* str.lower() on the selectors used here
Lower(lang) ==
    CASE lang = "JS" -> "js"
      [] lang = "ALL" -> "all"
      [] lang = "Python" -> "python"
      [] OTHER -> lang

\* lang_norm = (lang or "all").strip().lower()
LangNorm(lang) == Lower(Strip(lang))

include_py(lang) == LangNorm(lang) \in {"all", "python", "py"}
include_js(lang) == LangNorm(lang) \in {"all", "js", "javascript", "npm"}
include_go(lang) == LangNorm(lang) \in {"all", "go", "golang"}
include_java(lang) == LangNorm(lang) \in {"all", "java"}
include_cs(lang) == LangNorm(lang) \in {"all", "csharp", "cs", ".net", "dotnet"}

(***************************************************************************)
(* Go files (lines 2204-2236).  A Go import path, the module path of the   *)
(* root go.mod and the id of a Go node are strings; they are modelled as   *)
(* sequences of characters so that prefix tests and stripping are          *)
(* computed.  A Go file is [lang, id, imports, readable, module]: imports  *)
(* are [spec, kind] with kind "single" (import "p") or "block" (a line of  *)
(* an import ( ... ) block), module is the go.mod module path, <<>> when   *)
(* there is no go.mod.                                                     *)
(***************************************************************************)
\* spec.startswith(go_module)
StartsWith(str, prefix) ==
    /\ Len(prefix) <= Len(str)
    /\ SubSeq(str, 1, Len(prefix)) = prefix

RECURSIVE LStripSlash(_)
\* str.lstrip('/')
LStripSlash(str) ==
    IF str # <<>> /\ Head(str) = "/" THEN LStripSlash(Tail(str)) ELSE str

\* Node ids are numbers in this model.  A Go name becomes the number whose
\* base-GoRadix digits are the ranks of its characters, left-aligned in
\* GoWidth digits above GoBase, so that numbers order as the names do.
GoBase == 10000
GoRadix == 7
GoWidth == 4
CharRank(c) ==
    CASE c = "/" -> 1
      [] c = "f" -> 2
      [] c = "g" -> 3
      [] c = "m" -> 4
      [] c = "u" -> 5
      [] c = "x" -> 6

RECURSIVE GoDigits(_, _)
GoDigits(str, k) ==
    IF k > Len(str) THEN 0
    ELSE CharRank(str[k]) * GoRadix ^ (GoWidth - k) + GoDigits(str, k + 1)

GoId(str) == GoBase + GoDigits(str, 1)

\* a Go source file: node, internal, no language tag
GoDeclare(acc, f) ==
    [acc EXCEPT !.nodes_set = @ \cup {f.id},
                !.internal_nodes = @ \cup {f.id}]

\* dst = spec, or the rest of spec after the module path when spec starts
\* with it
GoTarget(go_module, spec) ==
    IF go_module # <<>> /\ StartsWith(spec, go_module)
    THEN LStripSlash(SubSeq(spec, Len(go_module) + 1, Len(spec)))
    ELSE spec

\* one matched Go import: a target under the module path is internal; only
\* the targets of block imports are tagged go
GoImport(acc, f, imp) ==
    LET dst == GoId(GoTarget(f.module, imp.spec))
        rewritten == f.module # <<>> /\ StartsWith(imp.spec, f.module)
    IN [acc EXCEPT !.internal_nodes = IF rewritten THEN @ \cup {dst} ELSE @,
                   !.edges_map = IncEdge(@, f.id, dst),
                   !.nodes_set = @ \cup {dst},
                   !.node_meta = IF imp.kind = "block"
                                 THEN SetDefaultLang(@, dst, "go") ELSE @]

\* go_import_single.finditer(src), then the lines of go_import_block
GoMatched(imports) ==
    SelectSeq(imports, LAMBDA imp : imp.kind = "single")
    \o SelectSeq(imports, LAMBDA imp : imp.kind = "block")

RECURSIVE FoldGoImports(_, _, _, _)
FoldGoImports(acc, f, matched, i) ==
    IF i > Len(matched) \/ ~f.readable THEN acc
    ELSE LET next == GoImport(acc, f, matched[i])
         IN IF next = next THEN FoldGoImports(next, f, matched, i + 1) ELSE acc

RECURSIVE FoldGo(_, _, _)
FoldGo(acc, files, i) ==
    IF i > Len(files) THEN acc
    ELSE LET next == FoldGoImports(GoDeclare(acc, files[i]), files[i],
                                   GoMatched(files[i].imports), 1)
         IN IF next = next THEN FoldGo(next, files, i + 1) ELSE acc

\* a Java file whose text is read: its package (or path id) is a node,
\* internal, tagged java (both loops over java_files)
JavaDeclare(acc, f) ==
    IF ~f.readable THEN acc
    ELSE [acc EXCEPT !.nodes_set = @ \cup {f.id},
                     !.internal_nodes = @ \cup {f.id},
                     !.node_meta = SetDefaultLang(@, f.id, "java")]

\* lines 2264-2266: one matched Java import records its edge, its target
\* and the target's tag; line 2267 then raises
JavaImport(acc, f, imp) ==
    [acc EXCEPT !.edges_map = IncEdge(@, f.id, imp.dst),
                !.nodes_set = @ \cup {imp.dst},
                !.node_meta = SetDefaultLang(@, imp.dst, "java")]

RECURSIVE FoldJava(_, _, _)
FoldJava(acc, files, i) ==
    IF i > Len(files) THEN acc
    ELSE LET next == JavaDeclare(acc, files[i])
         IN IF next = next THEN FoldJava(next, files, i + 1) ELSE acc

\* line 2267 reads the name cs_internal, which is defined nowhere: the first
\* matched Java import raises NameError, which leaves the handler as the
\* internal-error condition
Raises(files, lang) ==
    /\ include_java(lang)
    /\ \E i \in DOMAIN files :
          /\ files[i].lang = "java"
          /\ files[i].readable
          /\ Len(files[i].imports) > 0

\* the file lists of the languages the selector excludes are cleared, then the
\* python files are accumulated (both loops), then the JS/TS files, then the
\* Go files, then the Java files.  The walk also fills a list of C# files,
\* which the selector clears like the others, but no loop reads that list:
\* C# files add nothing to the accumulators.
Accumulate(files, lang) ==
    LET py == IF include_py(lang)
              THEN SelectSeq(files, LAMBDA f : f.lang = "python") ELSE <<>>
        js == IF include_js(lang)
              THEN SelectSeq(files, LAMBDA f : f.lang = "js") ELSE <<>>
        go == IF include_go(lang)
              THEN SelectSeq(files, LAMBDA f : f.lang = "go") ELSE <<>>
        java == IF include_java(lang)
                THEN SelectSeq(files, LAMBDA f : f.lang = "java") ELSE <<>>
    IN FoldJava(FoldGo(FoldJs(FoldPy(FoldDeclare(EmptyAcc, py, 1), py, 1),
                              js, 1),
                       go, 1),
                java, 1)

(***************************************************************************)
(* Filter stages (arch_graph, lines 2330-2363)                             *)
(***************************************************************************)
\* _lang_ok: compares the node's tag with the raw selector, not with lang_norm
_lang_ok(node_meta, lang, node_id) ==
    IF lang = "all" THEN TRUE
    ELSE LET l == IF node_id \in DOMAIN node_meta THEN node_meta[node_id] ELSE ""
         IN IF lang = "js" THEN l \in {"js", "npm"} ELSE l = Lower(lang)

LangFilter(acc, lang) == {n \in acc.nodes_set : _lang_ok(acc.node_meta, lang, n)}

\* faulty variant: the comparison of the weight filter reversed
WeightOk_Reversed(w, min_weight) == w <= Max(1, min_weight)

\* faulty variant: the threshold ignores min_weight
WeightOk_NoThreshold(w, min_weight) == w >= 1

\* w >= max(1, int(min_weight))
WeightOk(w, min_weight) == w >= Max(1, min_weight)

\* stage 2: edges of sufficient weight between nodes that passed stage 1
EdgeFilter(edges_map, filtered_nodes, min_weight) ==
    SelectSeq(edges_map, LAMBDA e : /\ WeightOk(e.w, min_weight)
                                    /\ e.src \in filtered_nodes
                                    /\ e.dst \in filtered_nodes)

\* deg.get(n, 0): one for each edge end at n (a self import counts twice)
Degree(edge_items, n) ==
    Cardinality({i \in DOMAIN edge_items : edge_items[i].src = n})
    + Cardinality({i \in DOMAIN edge_items : edge_items[i].dst = n})

\* faulty variant: the floor of ten internal nodes left out
Half_NoFloor(node_cap, n_internals) == Min(node_cap \div 2, n_internals)

\* half = max(10, min(node_cap // 2, len(internals)))
Half(node_cap, n_internals) == Max(10, Min(node_cap \div 2, n_internals))

\* faulty variant: the kept internal nodes not subtracted from the budget
ExternalBudget_Whole(node_cap, n_kept_internals) == Max(0, node_cap)

\* faulty variant: the subtraction written the other way round
ExternalBudget_Swapped(node_cap, n_kept_internals) == Max(0, n_kept_internals - node_cap)

\* externals[:max(0, node_cap - len(internals))], internals already cut
ExternalBudget(node_cap, n_kept_internals) == Max(0, node_cap - n_kept_internals)

RECURSIVE KSubsets(_, _)
\* the subsets of S with exactly k elements
KSubsets(S, k) ==
    IF k = 0 THEN {{}}
    ELSE IF Cardinality(S) < k THEN {}
    ELSE IF Cardinality(S) = k THEN {S}
    ELSE LET x == CHOOSE y \in S : TRUE
         IN {T \cup {x} : T \in KSubsets(S \ {x}, k - 1)}
            \cup KSubsets(S \ {x}, k)

\* The lists are built by iterating a set of strings, whose order depends on
\* the interpreter's string hashing, and sorted stably by degree, descending;
\* lst[:k] is therefore any k-subset S with every kept node's degree >= every
\* dropped node's degree.
TopByDegree(S, edge_items, k) ==
    IF k >= Cardinality(S) THEN {S}
    ELSE IF k <= 0 THEN {{}}
    ELSE LET deg == [n \in S |-> Degree(edge_items, n)]
             \* the degree of the k-th node of the sorted list
             t == CHOOSE x \in {deg[n] : n \in S} :
                     /\ Cardinality({n \in S : deg[n] >= x}) >= k
                     /\ Cardinality({n \in S : deg[n] > x}) < k
             sure == {n \in S : deg[n] > t}
             tie == {n \in S : deg[n] = t}
         IN {sure \cup T : T \in KSubsets(tie, k - Cardinality(sure))}

\* faulty variant: the edges are not filtered again after the node cap
Refilter_Skipped(edge_items, kept_nodes) == edge_items

\* [(s, d, w) for ... if s in kept_nodes and d in kept_nodes]
Refilter(edge_items, kept_nodes) ==
    SelectSeq(edge_items, LAMBDA e : e.src \in kept_nodes /\ e.dst \in kept_nodes)

\* stage 3: the sets of nodes the cap stage can keep
NodeCapOutcomes(acc, filtered_nodes, edge_items, node_cap) ==
    IF node_cap > 0
    THEN LET internals == filtered_nodes \cap acc.internal_nodes
             externals == filtered_nodes \ acc.internal_nodes
             half == Half(node_cap, Cardinality(internals))
         IN UNION {{ki \cup ke :
                        ke \in TopByDegree(externals, edge_items,
                                   ExternalBudget(node_cap, Cardinality(ki)))} :
                    ki \in TopByDegree(internals, edge_items, half)}
    ELSE {filtered_nodes}

\* a node whose metadata has no "pkg" entry
NoPkg == [manager |-> "", name |-> 0, version |-> ""]

\* the returned document: nodes sorted by id, edges in edges_map order, stats
Document(acc, kept_nodes, edge_items) ==
    LET ids == Sorted(kept_nodes)
        nodes == [i \in DOMAIN ids |->
                    [id |-> ids[i],
                     type |-> IF ids[i] \in acc.internal_nodes
                              THEN "internal" ELSE "external",
                     lang |-> IF ids[i] \in DOMAIN acc.node_meta
                              THEN acc.node_meta[ids[i]] ELSE "",
                     pkg |-> IF ids[i] \in DOMAIN acc.node_pkg
                             THEN acc.node_pkg[ids[i]] ELSE NoPkg]]
        edges == [i \in DOMAIN edge_items |->
                    [source |-> edge_items[i].src,
                     target |-> edge_items[i].dst,
                     weight |-> edge_items[i].w]]
    IN [status |-> "ok", nodes |-> nodes, edges |-> edges,
        stats |-> [node_count |-> Len(nodes),
                   edge_count |-> Len(edges),
                   internal_nodes |->
                       Cardinality({i \in DOMAIN nodes : nodes[i].type = "internal"}),
                   external_nodes |->
                       Cardinality({i \in DOMAIN nodes : nodes[i].type = "external"})]]

\* except Exception: HTTPException(500) - the build returned no document
ErrorDoc ==
    [status |-> "error", nodes |-> <<>>, edges |-> <<>>,
     stats |-> [node_count |-> 0, edge_count |-> 0,
                internal_nodes |-> 0, external_nodes |-> 0]]

\* lines 2330-2384: every document the filter stages can make of what was
\* accumulated
FilterOutcomes(acc, lang, min_weight, node_cap) ==
    LET filtered_nodes == LangFilter(acc, lang)
        edge_items == EdgeFilter(acc.edges_map, filtered_nodes, min_weight)
    IN {Document(acc, kept, IF node_cap > 0 THEN Refilter(edge_items, kept)
                            ELSE edge_items) :
            kept \in NodeCapOutcomes(acc, filtered_nodes, edge_items, node_cap)}

\* every document a fresh build over `files` can return
BuildOutcomes(files, lang, min_weight, node_cap) ==
    IF Raises(files, lang) THEN {ErrorDoc}
    ELSE FilterOutcomes(Accumulate(files, lang), lang, min_weight, node_cap)

(***************************************************************************)
(* The result cache (lines 80-107): a dict used as an LRU list.  A dict    *)
(* keeps its items in insertion order; it is modelled as the sequence of   *)
(* its items.                                                              *)
(***************************************************************************)
_CACHE_LIMIT == 64

\* Optional[dict]: None, or a value
NoneVal == [some |-> FALSE]
Some(v) == [some |-> TRUE, val |-> v]

\* key in cache
DictHas(c, key) == \E i \in DOMAIN c : c[i].key = key

\* cache.get(key)
DictGet(c, key) ==
    IF DictHas(c, key)
    THEN Some(c[CHOOSE i \in DOMAIN c : c[i].key = key].val)
    ELSE NoneVal

\* cache.pop(key, None)
DictPop(c, key) == SelectSeq(c, LAMBDA e : e.key # key)

\* cache[key] = value: a new key goes to the end, a present key keeps its place
DictSetItem(c, key, value) ==
    IF DictHas(c, key)
    THEN [c EXCEPT ![CHOOSE i \in DOMAIN c : c[i].key = key].val = value]
    ELSE Append(c, [key |-> key, val |-> value])

\* next(iter(cache))
DictFirst(c) == c[1].key

DictKeys(c) == {c[i].key : i \in DOMAIN c}

\* faulty variant: nothing is evicted
CacheSet_NoEvict(c, key, value) ==
    DictSetItem(IF DictHas(c, key) THEN DictPop(c, key) ELSE c, key, value)

\* _cache_set, run without interruption: the cache it leaves
CacheSet(c, key, value) ==
    LET c1 == IF DictHas(c, key) THEN DictPop(c, key) ELSE c
        c2 == DictSetItem(c1, key, value)
    IN IF Len(c2) > _CACHE_LIMIT THEN DictPop(c2, DictFirst(c2)) ELSE c2

\* faulty variant: a read does not move the entry to the end
CacheTouch_NoTouch(c, key) == c

\* _cache_get, run without interruption: the cache it leaves
CacheTouch(c, key) ==
    LET val == DictGet(c, key)
    IN IF val.some THEN DictSetItem(DictPop(c, key), key, val.val) ELSE c

\* _cache_get's return value
CacheGet(c, key) == DictGet(c, key)

(***************************************************************************)
(* Inputs of the filter-stage specification                                *)
(***************************************************************************)
ExtId(j) == 100 + j

PyFile(i, imports) ==
    [lang |-> "python", id |-> i, imports |-> imports, readable |-> TRUE]

Imp(dst) == [dst |-> dst, rel |-> FALSE, kind |-> "from"]

\* one JS file (id 50) requiring package 101 and the relative module 51, with
\* no package.json above it
JsFiles(nJs) ==
    IF nJs = 0 THEN <<>>
    ELSE <<[lang |-> "js", id |-> 50,
            imports |-> <<[dst |-> ExtId(1), rel |-> FALSE, kind |-> "require"],
                          [dst |-> 51, rel |-> TRUE, kind |-> "require"]>>,
            readable |-> TRUE, deps |-> <<>>]>>

\* nInt python modules; module 2 imports module 1 `heavy` times; every module
\* but module 1 imports each of the nExt external packages once
HubRepo(nInt, nExt, heavy, nJs) ==
    [i \in 1..nInt |->
        PyFile(i, IF i = 1 THEN <<>>
                  ELSE (IF i = 2 THEN Repeat(Imp(1), heavy) ELSE <<>>)
                       \o [j \in 1..nExt |-> Imp(ExtId(j))])]
    \o JsFiles(nJs)

ImportLists ==
    UNION {[1..n -> {Imp(1), Imp(2), Imp(ExtId(1))}] : n \in 0..MaxWeight}

\* two python modules with arbitrary short import lists (self imports included)
PairRepo(l1, l2) == <<PyFile(1, l1), PyFile(2, l2)>>

\* the floor of ten internal nodes of the node cap stage
InternalFloor == 10

\* hub sizes: repositories with more internal nodes than the floor (the ones
\* the cap stage cuts) import every external package, and module 2 imports
\* module 1 either never or MaxWeight times
HubShapes(extra) ==
    {s \in [nInt : 0..(MaxInternal - extra), nExt : 0..MaxExternal,
            heavy : 0..MaxWeight] :
        s.nInt + extra > InternalFloor =>
            (s.nExt = MaxExternal /\ s.heavy \in {0, MaxWeight})}

\* the JS file brings two internal nodes: it is added where the repository
\* stays within MaxInternal internal nodes
Repos ==
    {HubRepo(s.nInt, s.nExt, s.heavy, 0) : s \in HubShapes(0)}
    \cup {HubRepo(s.nInt, s.nExt, s.heavy, 1) : s \in HubShapes(2)}
    \cup {PairRepo(l1, l2) : l1 \in ImportLists, l2 \in ImportLists}

Langs == {"all", "python", "py", "js", "npm"}
MinWeights == 0..(MaxWeight + 1)
NodeCaps == {-1, 0, 1, 2, 10, 12, 22}

NoReq == [lang |-> "all", min_weight |-> 0, node_cap |-> 0]
NoResp ==
    [status |-> "none", nodes |-> <<>>, edges |-> <<>>,
     stats |-> [node_count |-> 0, edge_count |-> 0,
                internal_nodes |-> 0, external_nodes |-> 0]]

(***************************************************************************)
(* SpecFilter: one fresh build of arch_graph over a checked-out repository *)
(***************************************************************************)
NoEvict == [happened |-> FALSE, key |-> 0, stamp |-> 0, others |-> {}, hit |-> 0]

\* the variables a specification does not use stay at these values
IdleCache ==
    /\ cache = <<>>
    /\ th = <<>>
    /\ clock = 0
    /\ last_access = <<>>
    /\ last_hit = 0
    /\ evict = NoEvict
    /\ gone = {}
    /\ reinserted = FALSE

IdleReq ==
    /\ head = <<>>
    /\ rq = <<>>
    /\ tmpdirs = {}
    /\ origin_of = <<>>

IdleAccum ==
    /\ accum = EmptyAcc
    /\ todo = <<>>

\* no walk in progress
NoWalk ==
    [dirs |-> <<>>, max_files |-> 0, d |-> 0, k |-> 0, phase |-> "idle",
     buckets |-> <<>>, per_dir_counts |-> <<>>]

IdleWalk == walk = NoWalk

\* no specifier being resolved
IdleResolve == resolved = <<>>

IdleFilter ==
    /\ IdleAccum
    /\ IdleResolve
    /\ IdleWalk
    /\ repo = <<>>
    /\ req = NoReq
    /\ resp = NoResp

InitFilter ==
    /\ repo \in Repos
    /\ IdleAccum
    /\ IdleResolve
    /\ IdleWalk
    /\ req = NoReq
    /\ resp = NoResp
    /\ IdleCache
    /\ IdleReq

Owner == "o"

\* faulty variant: max_files left out of the key
CacheKey_NoMaxFiles(owner, name, last_sha, max_files) ==
    owner \o "/" \o name \o "@"
    \o (IF last_sha.some /\ last_sha.val # "" THEN last_sha.val ELSE "unknown")

\* cache_key = f"{owner}/{name}@{last_sha or 'unknown'}:{max_files}"
CacheKey(owner, name, last_sha, max_files) ==
    owner \o "/" \o name \o "@"
    \o (IF last_sha.some /\ last_sha.val # "" THEN last_sha.val ELSE "unknown")
    \o ":" \o ToString(max_files)

\* the key of the one request of a single build: o/n at commit s1 with the
\* default max_files
BuildKey == CacheKey(Owner, "n", Some("s1"), 3000)

\* line 2387: a build that produced a document stores it; one that raised
\* stores nothing
StoreDoc(c, doc) ==
    IF doc.status = "ok" THEN CacheSet(c, BuildKey, doc) ELSE c

\* accumulation, the three filter stages and the store, lines 2059-2388
Build(lang, min_weight, node_cap) ==
    /\ resp.status = "none"
    /\ req' = [lang |-> lang, min_weight |-> min_weight, node_cap |-> node_cap]
    /\ resp' \in BuildOutcomes(repo, lang, min_weight, node_cap)
    /\ cache' = StoreDoc(cache, resp')
    /\ UNCHANGED <<repo, accum, todo, walk, resolved>>
    /\ UNCHANGED <<th, clock, last_access, last_hit, evict, gone, reinserted>>
    /\ UNCHANGED reqVars

NextFilter ==
    \E lang \in Langs, min_weight \in MinWeights, node_cap \in NodeCaps :
        Build(lang, min_weight, node_cap)

SpecFilter == InitFilter /\ [][NextFilter]_vars

(***************************************************************************)
(* SpecParse: one fresh build over a small repository whose files differ   *)
(* in the form and order of their import statements                        *)
(***************************************************************************)
ExtTop == ExtId(MaxExternal)

Stmt(dst, rel, kind) == [dst |-> dst, rel |-> rel, kind |-> kind]

\* python statements: from a02 import z, from <ExtTop> import z, import <ExtTop>
PyStmts ==
    {Stmt(2, FALSE, "from"), Stmt(ExtTop, FALSE, "from"),
     Stmt(ExtTop, FALSE, "import")}

\* JS statements: a package or the sibling module 51, imported or required
JsStmts ==
    {Stmt(d.dst, d.rel, k) :
        d \in {[dst |-> ExtId(1), rel |-> FALSE], [dst |-> 51, rel |-> TRUE]},
        k \in {"es", "require"}}

StmtLists(S) == UNION {[1..n -> S] : n \in 0..MaxStmts}

JsFile(i, imports, deps) ==
    [lang |-> "js", id |-> i, imports |-> imports, readable |-> TRUE,
     deps |-> deps]

\* no package.json, or one that declares a version of package 101
Manifests == {<<>>, ExtId(1) :> "^18.2.0"}

\* Go import paths: under the module m, sharing only its characters, foreign
GoSpecs == {<<"m", "/", "u">>, <<"m", "x", "/", "u">>, <<"f">>}
GoStmts == {[spec |-> p, kind |-> k] : p \in GoSpecs, k \in {"single", "block"}}

\* no go.mod, or one that declares module m
GoModules == {<<>>, <<"m">>}

\* g.go
GoFile(imports, module) ==
    [lang |-> "go", id |-> GoId(<<"g">>), imports |-> imports,
     readable |-> TRUE, module |-> module]

\* a Java file: its package id and its import statements
JavaFile(i, imports) ==
    [lang |-> "java", id |-> i, imports |-> imports, readable |-> TRUE]

\* Java imports: of the package 61 that another file declares, of a package
\* no file declares
JavaStmts == {Stmt(61, FALSE, "import"), Stmt(ExtId(1), FALSE, "import")}

\* a C# file: its namespace id and its using declarations
CsFile(i, imports) ==
    [lang |-> "csharp", id |-> i, imports |-> imports, readable |-> TRUE]

CsStmts == {Stmt(ExtId(1), FALSE, "using")}

ParseRepos ==
    {<<PyFile(1, l1), PyFile(2, <<>>), JsFile(50, l2, deps)>> :
        l1 \in StmtLists(PyStmts), l2 \in StmtLists(JsStmts),
        deps \in Manifests}
    \cup {<<GoFile(l, module)>> : l \in StmtLists(GoStmts), module \in GoModules}
    \cup {<<JavaFile(60, l), JavaFile(61, <<>>)>> : l \in StmtLists(JavaStmts)}
    \cup {<<CsFile(80, l)>> : l \in StmtLists(CsStmts)}

ParseLangs ==
    {"all", "ALL", " all ", "python", "Python", " python ", "py",
     "js", "JS", "javascript", "npm", "go", "golang", "java",
     "csharp"}
ParseWeights == {1, 2}
ParseCaps == {0, 200}

InitParse ==
    /\ repo \in ParseRepos
    /\ IdleAccum
    /\ IdleResolve
    /\ IdleWalk
    /\ req = NoReq
    /\ resp = NoResp
    /\ IdleCache
    /\ IdleReq

NextParse ==
    \E lang \in ParseLangs, min_weight \in ParseWeights, node_cap \in ParseCaps :
        Build(lang, min_weight, node_cap)

SpecParse == InitParse /\ [][NextParse]_vars

(***************************************************************************)
(* SpecAccum: one build taken one observation at a time.  An observation   *)
(* is one execution of a loop body of lines 2097-2268 that writes the      *)
(* accumulators: the declaration of a source file's node, or one matched   *)
(* import.                                                                 *)
(***************************************************************************)
Step(op, f, imp) == [op |-> op, f |-> f, imp |-> imp]

NoStmt == Stmt(0, FALSE, "")

\* the observations one file gives rise to in its language's import loop
FileSteps(f) ==
    LET matched ==
            IF ~f.readable THEN <<>>
            ELSE CASE f.lang = "python" -> PyMatched(f.imports, 1)
                   [] f.lang = "js" -> JsMatched(f.imports)
                   [] f.lang = "go" -> GoMatched(f.imports)
                   [] OTHER -> f.imports
        op(imp) ==
            CASE f.lang = "python" -> "py_import"
              [] f.lang = "js" ->
                     IF imp.kind = "es" THEN "js_import_es" ELSE "js_require"
              [] f.lang = "go" -> "go_import"
              [] OTHER -> "java_import"
        declare ==
            CASE f.lang = "js" -> <<Step("js_declare", f, NoStmt)>>
              [] f.lang = "go" -> <<Step("go_declare", f, NoStmt)>>
              [] OTHER -> <<>>
    IN declare \o [k \in DOMAIN matched |-> Step(op(matched[k]), f, matched[k])]

RECURSIVE StepsOf(_, _)
StepsOf(files, i) ==
    IF i > Len(files) THEN <<>>
    ELSE FileSteps(files[i]) \o StepsOf(files, i + 1)

\* the observations of a build, in the order of the loops: python
\* declarations, python imports, JS/TS files, Go files, Java package
\* declarations, Java imports
Steps(files, lang) ==
    LET py == IF include_py(lang)
              THEN SelectSeq(files, LAMBDA f : f.lang = "python") ELSE <<>>
        js == IF include_js(lang)
              THEN SelectSeq(files, LAMBDA f : f.lang = "js") ELSE <<>>
        go == IF include_go(lang)
              THEN SelectSeq(files, LAMBDA f : f.lang = "go") ELSE <<>>
        java == IF include_java(lang)
                THEN SelectSeq(files, LAMBDA f : f.lang = "java") ELSE <<>>
    IN [k \in DOMAIN py |-> Step("py_declare", py[k], NoStmt)]
       \o StepsOf(py, 1) \o StepsOf(js, 1) \o StepsOf(go, 1)
       \o [k \in DOMAIN java |-> Step("java_declare", java[k], NoStmt)]
       \o StepsOf(java, 1)

\* the accumulators after one observation
ApplyStep(acc, s) ==
    CASE s.op = "py_declare" -> PyDeclare(acc, s.f)
      [] s.op = "py_import" -> PyImport(acc, s.f.id, s.imp)
      [] s.op = "js_declare" -> JsDeclare(acc, s.f)
      [] s.op = "js_import_es" -> JsImportEs(acc, s.f, s.imp)
      [] s.op = "js_require" -> JsRequire(acc, s.f, s.imp)
      [] s.op = "go_declare" -> GoDeclare(acc, s.f)
      [] s.op = "go_import" -> GoImport(acc, s.f, s.imp)
      [] s.op = "java_declare" -> JavaDeclare(acc, s.f)

\* python statements that name the JS module f51 or a package
AccPyStmts == {Stmt(51, FALSE, "from"), Stmt(ExtId(1), FALSE, "from")}

\* JS statements: a package that has the name of the module f51, the module
\* f51 itself, the package 101 imported or required
AccJsStmts ==
    {Stmt(51, FALSE, "require"), Stmt(51, TRUE, "require"),
     Stmt(ExtId(1), FALSE, "es"), Stmt(ExtId(1), FALSE, "require")}

AccumRepos ==
    {<<PyFile(1, l1), JsFile(50, l2, deps), JsFile(51, <<>>, deps)>> :
        l1 \in StmtLists(AccPyStmts), l2 \in StmtLists(AccJsStmts),
        deps \in Manifests}
    \cup {<<GoFile(l, <<"m">>)>> : l \in StmtLists(GoStmts)}
    \cup {<<JavaFile(60, l), JavaFile(61, <<>>)>> : l \in StmtLists(JavaStmts)}

AccumLangs == {"all", "python", "js", "go", "java"}

InitAccum ==
    /\ repo \in AccumRepos
    /\ req = NoReq
    /\ resp = NoResp
    /\ IdleAccum
    /\ IdleResolve
    /\ IdleWalk
    /\ IdleCache
    /\ IdleReq

\* lines 2059-2094: the selector is read and the accumulators are created
Start(lang, min_weight, node_cap) ==
    /\ req = NoReq
    /\ resp.status = "none"
    /\ req' = [lang |-> lang, min_weight |-> min_weight, node_cap |-> node_cap]
    /\ accum' = EmptyAcc
    /\ todo' = Steps(repo, lang)
    /\ UNCHANGED <<repo, resp, walk, resolved>>
    /\ UNCHANGED cacheVars
    /\ UNCHANGED reqVars

\* one observation; a Java import is recorded (lines 2264-2266) and then
\* raises NameError (line 2267), which ends the build
Observe ==
    /\ todo # <<>>
    /\ resp.status = "none"
    /\ IF Head(todo).op = "java_import"
       THEN /\ resp' = ErrorDoc
            /\ todo' = <<>>
            /\ accum' = JavaImport(accum, Head(todo).f, Head(todo).imp)
       ELSE /\ accum' = ApplyStep(accum, Head(todo))
            /\ todo' = Tail(todo)
            /\ resp' = resp
    /\ UNCHANGED <<repo, req, walk, resolved>>
    /\ UNCHANGED cacheVars
    /\ UNCHANGED reqVars

\* lines 2330-2388: the filter stages, the document and the store
Finish ==
    /\ req # NoReq
    /\ todo = <<>>
    /\ resp.status = "none"
    /\ resp' \in FilterOutcomes(accum, req.lang, req.min_weight, req.node_cap)
    /\ cache' = StoreDoc(cache, resp')
    /\ UNCHANGED <<repo, req, accum, todo, walk, resolved>>
    /\ UNCHANGED <<th, clock, last_access, last_hit, evict, gone, reinserted>>
    /\ UNCHANGED reqVars

NextAccum ==
    \/ \E lang \in AccumLangs, min_weight \in ParseWeights : Start(lang, min_weight, 0)
    \/ Observe
    \/ Finish

SpecAccum == InitAccum /\ [][NextAccum]_vars

(***************************************************************************)
(* SpecWalk: the walk over the cloned tree, lines 2017-2057, one directory *)
(* or one file at a time.  A directory is its basename, its parent (0 for  *)
(* the root) and its file names; a file name is modelled by its extension, *)
(* the only part the walk reads.  os.walk yields a directory before its    *)
(* subdirectories.                                                         *)
(***************************************************************************)
per_dir_cap == 20

\* max(100, min(10000, max_files))
FileCap(max_files) == Max(100, Min(10000, max_files))

Denylist ==
    {".git", ".venv", "venv", "node_modules", "dist", "build", "__pycache__"}

BucketNames ==
    {"py_files", "js_files", "go_files", "java_files", "cs_files",
     "php_files", "rb_files"}

\* the list a file name is appended to, lines 2037-2050
Bucket(fn) ==
    CASE fn = ".py" -> "py_files"
      [] fn \in {".js", ".jsx", ".ts", ".tsx"} -> "js_files"
      [] fn = ".go" -> "go_files"
      [] fn = ".java" -> "java_files"
      [] fn = ".cs" -> "cs_files"
      [] fn = ".php" -> "php_files"
      [] fn = ".rb" -> "rb_files"
      [] OTHER -> "none"

\* line 2052
Recognized(fn) ==
    fn \in {".py", ".js", ".jsx", ".ts", ".tsx", ".go", ".java", ".cs",
            ".php", ".rb"}

\* line 2035: the directory has given its share
DirFull_OneMore(cnt) == cnt > per_dir_cap

DirFull(cnt) == cnt >= per_dir_cap

\* the sum of the lengths of the seven lists, lines 2054 and 2056
RECURSIVE SumLen(_, _)
SumLen(buckets, names) ==
    IF names = {} THEN 0
    ELSE LET b == CHOOSE x \in names : TRUE
         IN Len(buckets[b]) + SumLen(buckets, names \ {b})

Total(buckets) == SumLen(buckets, BucketNames)

\* the trees walked: MaxDirs directories at most, one of them possibly with
\* a denylisted basename and followed by a subdirectory of its own
MaxDirs == 7

Extensions ==
    <<".py", ".js", ".jsx", ".ts", ".tsx", ".go", ".java", ".cs", ".php",
      ".rb", ".md">>

DenySeq ==
    <<".git", ".venv", "venv", "node_modules", "dist", "build", "__pycache__">>

Dir(bn, parent, files) == [bn |-> bn, parent |-> parent, files |-> files]

FilesOf(j, c) == [k \in 1..c |-> Extensions[((j + k) % Len(Extensions)) + 1]]

\* n directories of c files each; directory z (if any) is denylisted and
\* directory z + 1 lies in it; every other directory lies in the root
Tree(n, z, c) ==
    [j \in 1..n |->
        Dir(IF j = 1 THEN "arch_tmp"
            ELSE IF j = z THEN DenySeq[(z % Len(DenySeq)) + 1]
            ELSE IF j = z + 1 /\ z > 1 THEN "pkg"
            ELSE "src",
            IF j = 1 THEN 0 ELSE IF j = z + 1 /\ z > 1 THEN z ELSE 1,
            FilesOf(j, c))]

DirSizes == {2, per_dir_cap + 4}

Trees ==
    {Tree(n, z, c) : n \in 1..MaxDirs, z \in {0} \cup 2..MaxDirs, c \in DirSizes}

MaxFilesValues == {0, 101, 3000}

InitWalk ==
    /\ walk \in {[dirs |-> t, max_files |-> m, d |-> 1, k |-> 1,
                   phase |-> "dir",
                   buckets |-> [b \in BucketNames |-> <<>>],
                   per_dir_counts |-> <<>>] : t \in Trees, m \in MaxFilesValues}
    /\ IdleAccum
    /\ IdleResolve
    /\ repo = <<>>
    /\ req = NoReq
    /\ resp = NoResp
    /\ IdleCache
    /\ IdleReq

\* lines 2027-2031: os.walk yields the next directory, or is exhausted; a
\* directory with a denylisted basename is passed over
EnterDir ==
    /\ walk.phase = "dir"
    /\ walk' = IF walk.d > Len(walk.dirs)
               THEN [walk EXCEPT !.phase = "done"]
               ELSE IF walk.dirs[walk.d].bn \in Denylist
               THEN [walk EXCEPT !.d = @ + 1]
               ELSE [walk EXCEPT !.phase = "files", !.k = 1]
    /\ UNCHANGED <<repo, req, resp, accum, todo, resolved>>
    /\ UNCHANGED cacheVars
    /\ UNCHANGED reqVars

\* lines 2032-2055: one file name of the current directory
VisitFile ==
    /\ walk.phase = "files"
    /\ walk.k <= Len(walk.dirs[walk.d].files)
    /\ LET fn == walk.dirs[walk.d].files[walk.k]
           cnt == IF walk.d \in DOMAIN walk.per_dir_counts
                  THEN walk.per_dir_counts[walk.d] ELSE 0
           b == Bucket(fn)
           buckets == IF b = "none" THEN walk.buckets
                      ELSE [walk.buckets EXCEPT
                                ![b] = Append(@, <<walk.d, walk.k>>)]
           counts == IF Recognized(fn)
                     THEN [x \in DOMAIN walk.per_dir_counts \cup {walk.d} |->
                              IF x = walk.d THEN cnt + 1
                              ELSE walk.per_dir_counts[x]]
                     ELSE walk.per_dir_counts
       IN walk' = IF DirFull(cnt)
                  THEN [walk EXCEPT !.k = @ + 1]
                  ELSE IF Total(buckets) >= FileCap(walk.max_files)
                  THEN [walk EXCEPT !.buckets = buckets,
                                    !.per_dir_counts = counts,
                                    !.phase = "done"]
                  ELSE [walk EXCEPT !.buckets = buckets,
                                    !.per_dir_counts = counts,
                                    !.k = @ + 1]
    /\ UNCHANGED <<repo, req, resp, accum, todo, resolved>>
    /\ UNCHANGED cacheVars
    /\ UNCHANGED reqVars

\* lines 2056-2057: the directory's file names are exhausted
LeaveDir ==
    /\ walk.phase = "files"
    /\ walk.k > Len(walk.dirs[walk.d].files)
    /\ walk' = IF Total(walk.buckets) >= FileCap(walk.max_files)
               THEN [walk EXCEPT !.phase = "done"]
               ELSE [walk EXCEPT !.phase = "dir", !.d = @ + 1]
    /\ UNCHANGED <<repo, req, resp, accum, todo, resolved>>
    /\ UNCHANGED cacheVars
    /\ UNCHANGED reqVars

NextWalk == EnterDir \/ VisitFile \/ LeaveDir

SpecWalk == InitWalk /\ [][NextWalk]_vars

(***************************************************************************)
(* SpecResolve: the resolution of one relative or rooted specifier.  A     *)
(* path is the sequence of its directory names, the base of its last name  *)
(* and that name's extension ("" if it has none of the source extensions); *)
(* a node id is the sequence of the parts of the id string between its     *)
(* slashes; the disk is the set of the paths of the files of the clone,    *)
(* relative to its root.                                                   *)
(***************************************************************************)
Path(dir, base, ext) == [dir |-> dir, base |-> base, ext |-> ext]

\* the last name of the path, as written
FullName(p) == p.base \o p.ext

\* target + ext
WithExt(p, ext) == Path(p.dir, FullName(p), ext)

\* os.path.join(target, 'index' + ext)
IndexIn(p, ext) == Path(p.dir \o <<FullName(p)>>, "index", ext)

JsExts == <<".ts", ".tsx", ".js", ".jsx">>

\* _js_module_id and _rel_id_without_ext: the path relative to the root
\* without its extension, or None if the extension is not one of exts
_rel_id_without_ext(p, exts) ==
    IF p.ext \in exts THEN Some(p.dir \o <<p.base>>) ELSE NoneVal

_js_module_id(p) == _rel_id_without_ext(p, Range(JsExts))

\* os.path.normpath(os.path.join(file_dir, spec)); a specifier that starts
\* with a slash is an absolute path, which join returns as it is and the id
\* helpers take without its leading slash
JoinNorm(file_dir, spec) ==
    Path((IF spec.head = "/" THEN <<>>
          ELSE IF spec.head = ".." THEN SubSeq(file_dir, 1, Len(file_dir) - 1)
          ELSE file_dir) \o spec.dir,
         spec.base, spec.ext)

\* the specifier as written, split at its slashes (a leading slash gives an
\* empty first part)
Written(spec) ==
    (IF spec.head = "/" THEN <<"">>
     ELSE IF spec.head = "" THEN <<>> ELSE <<spec.head>>)
    \o spec.dir \o <<spec.base \o spec.ext>>

\* the candidates _resolve_js_import probes, in order
JsCandidates(target) ==
    <<target>>
    \o [i \in DOMAIN JsExts |-> WithExt(target, JsExts[i])]
    \o [i \in DOMAIN JsExts |-> IndexIn(target, JsExts[i])]

\* _resolve_js_import for a specifier that starts with "." or "/"; a
\* leading slash stands for the root of the clone
_resolve_js_import(spec, file_dir, disk) ==
    LET target == JoinNorm(file_dir, spec)
        hits == SelectSeq(JsCandidates(target),
                          LAMBDA c : c \in disk /\ _js_module_id(c).some)
    IN IF hits # <<>> THEN _js_module_id(hits[1]).val
       ELSE target.dir \o <<FullName(target)>>

\* PHP, lines 2285-2288: the leading slash is dropped and the rest joined to
\* the directory of the importing file; no probe of the disk
ResolvePhp(spec, file_dir) ==
    LET target == IF spec.head = "/" THEN [spec EXCEPT !.head = ""] ELSE spec
        id == _rel_id_without_ext(JoinNorm(file_dir, target), {".php"})
    IN IF id.some THEN id.val ELSE Written(target)

\* Ruby, lines 2308-2310 (require_relative) and 2319-2321 (require of a
\* specifier that starts with "."): no probe of the disk
ResolveRuby(spec, file_dir) ==
    LET id == _rel_id_without_ext(JoinNorm(file_dir, spec), {".rb"})
    IN IF id.some THEN id.val ELSE Written(spec)

\* the statement forms that resolve against the file system
ResolveKinds == {"js", "php", "require_relative", "require"}

ResolveDst(kind, spec, file_dir, disk) ==
    CASE kind = "js" -> _resolve_js_import(spec, file_dir, disk)
      [] kind = "php" -> ResolvePhp(spec, file_dir)
      [] OTHER -> ResolveRuby(spec, file_dir)

\* the source extensions of the language of a statement form
SourceExts(kind) ==
    CASE kind = "js" -> JsExts
      [] kind = "php" -> <<".php">>
      [] OTHER -> <<".rb">>

\* the files a clone may hold: b and c in lib/ and in the root, a directory
\* lib/b with an index file
DiskFiles(kind) ==
    UNION {{Path(<<"lib">>, "b", x), Path(<<>>, "b", x), Path(<<"lib">>, "c", x),
            Path(<<"lib", "b">>, "index", x)} : x \in Range(SourceExts(kind))}

Disks(kind) ==
    {d \in SUBSET DiskFiles(kind) : Cardinality(d) <= 2}

\* the specifiers: ./b, ../b, /b, /lib/b, ./lib/b and (require_relative)
\* b, each without extension and with each source extension
Specifiers(kind) ==
    {[head |-> h, dir |-> d, base |-> "b", ext |-> x] :
        h \in ({".", "..", "/"}
                 \cup (IF kind = "require_relative" THEN {""} ELSE {}))
                \ (IF kind = "require" THEN {"/"} ELSE {}),
        d \in {<<>>, <<"lib">>},
        x \in {""} \cup Range(SourceExts(kind))}

InitResolve ==
    /\ resolved \in
         UNION {{[kind |-> kind, disk |-> disk, spec |-> spec, file_dir |-> fd,
                  dst |-> NoneVal] :
                    disk \in Disks(kind),
                    spec \in {s \in Specifiers(kind) :
                                 s.head = ".." => fd # <<>>}} :
                kind \in ResolveKinds, fd \in {<<>>, <<"lib">>}}
    /\ IdleAccum
    /\ walk = NoWalk
    /\ repo = <<>>
    /\ req = NoReq
    /\ resp = NoResp
    /\ IdleCache
    /\ IdleReq

\* the import loop computes the target id of the matched specifier
ResolveImport ==
    /\ ~resolved.dst.some
    /\ resolved' = [resolved EXCEPT
                        !.dst = Some(ResolveDst(resolved.kind, resolved.spec,
                                                resolved.file_dir,
                                                resolved.disk))]
    /\ UNCHANGED <<repo, req, resp, accum, todo, walk>>
    /\ UNCHANGED cacheVars
    /\ UNCHANGED reqVars

NextResolve == ResolveImport

SpecResolve == InitResolve /\ [][NextResolve]_vars

(***************************************************************************)
(* SpecCache: _cache_get and _cache_set called one after another on one    *)
(* cache.  The cache starts as n sets of the keys 1..n leave it; the       *)
(* clock counts the calls made after that.                                 *)
(***************************************************************************)
\* the cache after _cache_set of the keys 1..n in turn, n <= _CACHE_LIMIT
Prefill(n) == [i \in 1..n |-> [key |-> i, val |-> "v1"]]

PrefillSizes == {0, _CACHE_LIMIT - 1, _CACHE_LIMIT}
CallKeys == {1, 2} \cup {_CACHE_LIMIT + j : j \in 1..MaxNewKeys}
Vals == {"v1", "v2"}

InitCache ==
    /\ \E n \in PrefillSizes :
          /\ cache = Prefill(n)
          /\ last_access = [k \in 1..n |-> k - n]
    /\ clock = 0
    /\ th = <<>>
    /\ last_hit = 0
    /\ evict = NoEvict
    /\ gone = {}
    /\ reinserted = FALSE
    /\ IdleFilter
    /\ IdleReq

\* history of an access to `key` at the next clock tick
Stamp(key) ==
    IF key \in DOMAIN last_access
    THEN [last_access EXCEPT ![key] = clock + 1]
    ELSE last_access @@ (key :> clock + 1)

\* one whole _cache_get(cache, key)
SeqGet(key) ==
    /\ clock < MaxOps
    /\ cache' = CacheTouch(cache, key)
    /\ clock' = clock + 1
    /\ IF CacheGet(cache, key).some
       THEN last_access' = Stamp(key) /\ last_hit' = key
       ELSE UNCHANGED <<last_access, last_hit>>
    /\ UNCHANGED <<th, evict, gone, reinserted>>
    /\ UNCHANGED filterVars
    /\ UNCHANGED reqVars

\* one whole _cache_set(cache, key, value)
SeqSet(key, value) ==
    /\ clock < MaxOps
    /\ cache' = CacheSet(cache, key, value)
    /\ clock' = clock + 1
    /\ last_access' = Stamp(key)
    /\ LET removed == (DictKeys(cache) \cup {key}) \ DictKeys(cache')
       IN IF removed = {} THEN evict' = evict
          ELSE LET victim == CHOOSE k \in removed : TRUE
               IN evict' = [happened |-> TRUE, key |-> victim,
                            stamp |-> Stamp(key)[victim],
                            others |-> {Stamp(key)[k] : k \in DictKeys(cache')},
                            hit |-> last_hit]
    \* a read protects its key until the next eviction
    /\ last_hit' = IF DictKeys(cache) \cup {key} = DictKeys(cache') THEN last_hit ELSE 0
    /\ UNCHANGED <<th, gone, reinserted>>
    /\ UNCHANGED filterVars
    /\ UNCHANGED reqVars

NextCache ==
    \/ \E key \in CallKeys : SeqGet(key)
    \/ \E key \in CallKeys, value \in Vals : SeqSet(key, value)

SpecCache == InitCache /\ [][NextCache]_vars

(***************************************************************************)
(* _cache_get and _cache_set as the request threads run them: one dict     *)
(* operation per step, the steps of different threads interleaved.         *)
(* th[t].pc is the operation the thread does next, th[t].ret where the     *)
(* caller continues when the call returns.                                 *)
(***************************************************************************)
Threads == 1..2

Idle(nokey) ==
    [pc |-> "idle", ret |-> "idle", key |-> nokey, value |-> NoneVal,
     val |-> NoneVal, it |-> 0, first |-> nokey, calls |-> 0]

\* the thread's state with the fields of `r` replaced
With(t, r) == [th EXCEPT ![t] = [f \in DOMAIN th[t] |->
                                    IF f \in DOMAIN r THEN r[f] ELSE th[t][f]]]

\* _cache_get is entered: val = cache.get(key); None is returned at once
BeginGet(t, key, ret) ==
    /\ th' = With(t, [key |-> key, ret |-> ret, val |-> DictGet(cache, key),
                      pc |-> IF DictGet(cache, key).some THEN "get_pop" ELSE ret,
                      calls |-> th[t].calls + 1])
    /\ UNCHANGED <<cache, gone, reinserted>>

\* cache.pop(key, None) of _cache_get
GetPop(t) ==
    /\ th[t].pc = "get_pop"
    /\ cache' = DictPop(cache, th[t].key)
    /\ th' = With(t, [pc |-> "get_store"])
    /\ UNCHANGED <<gone, reinserted>>

\* cache[key] = val of _cache_get, then return val
GetStore(t) ==
    /\ th[t].pc = "get_store"
    /\ cache' = DictSetItem(cache, th[t].key, th[t].val.val)
    /\ th' = With(t, [pc |-> th[t].ret])
    /\ reinserted' = (reinserted \/ (th[t].key \in gone /\ ~DictHas(cache, th[t].key)))
    /\ UNCHANGED gone

\* _cache_set is entered: if key in cache
BeginSet(t, key, value, ret) ==
    /\ th' = With(t, [key |-> key, ret |-> ret, value |-> Some(value),
                      pc |-> IF DictHas(cache, key) THEN "set_pop" ELSE "set_store",
                      calls |-> th[t].calls + 1])
    /\ UNCHANGED <<cache, gone, reinserted>>

\* cache.pop(key, None) of _cache_set
SetPop(t) ==
    /\ th[t].pc = "set_pop"
    /\ cache' = DictPop(cache, th[t].key)
    /\ th' = With(t, [pc |-> "set_store"])
    /\ UNCHANGED <<gone, reinserted>>

\* cache[key] = value
SetStore(t) ==
    /\ th[t].pc = "set_store"
    /\ cache' = DictSetItem(cache, th[t].key, th[t].value.val)
    /\ th' = With(t, [pc |-> "set_len"])
    /\ gone' = gone \ {th[t].key}
    /\ UNCHANGED reinserted

\* if len(cache) > _CACHE_LIMIT
SetLen(t) ==
    /\ th[t].pc = "set_len"
    /\ th' = With(t, [pc |-> IF Len(cache) > _CACHE_LIMIT THEN "set_iter"
                             ELSE th[t].ret])
    /\ UNCHANGED <<cache, gone, reinserted>>

\* iter(cache): the iterator remembers the dict's size
SetIter(t) ==
    /\ th[t].pc = "set_iter"
    /\ th' = With(t, [pc |-> "set_next", it |-> Len(cache)])
    /\ UNCHANGED <<cache, gone, reinserted>>

\* first = next(...): RuntimeError if the dict's size changed, StopIteration
\* if it is empty; both are swallowed by `except Exception: pass`
SetNext(t) ==
    /\ th[t].pc = "set_next"
    /\ IF Len(cache) # th[t].it \/ Len(cache) = 0
       THEN th' = With(t, [pc |-> th[t].ret, it |-> 0])
       ELSE th' = With(t, [pc |-> "set_evict", it |-> 0, first |-> DictFirst(cache)])
    /\ UNCHANGED <<cache, gone, reinserted>>

\* cache.pop(first, None)
SetEvict(t) ==
    /\ th[t].pc = "set_evict"
    /\ cache' = DictPop(cache, th[t].first)
    /\ gone' = IF DictHas(cache, th[t].first) THEN gone \cup {th[t].first} ELSE gone
    /\ th' = With(t, [pc |-> th[t].ret])
    /\ UNCHANGED reinserted

\* one dict operation of a call in progress
CacheStep(t) ==
    \/ GetPop(t)
    \/ GetStore(t)
    \/ SetPop(t)
    \/ SetStore(t)
    \/ SetLen(t)
    \/ SetIter(t)
    \/ SetNext(t)
    \/ SetEvict(t)

(***************************************************************************)
(* SpecConc: two threads calling _cache_get and _cache_set on a cache that *)
(* is full or one short of full.                                           *)
(***************************************************************************)
MaxCalls == 2

\* the oldest key of the prefilled cache and one that is not cached
ConcKeys == {1, _CACHE_LIMIT + 1}

InitConc ==
    /\ cache \in {Prefill(_CACHE_LIMIT - 1), Prefill(_CACHE_LIMIT)}
    /\ th = [t \in Threads |-> Idle(0)]
    /\ gone = {}
    /\ reinserted = FALSE
    /\ clock = 0
    /\ last_access = <<>>
    /\ last_hit = 0
    /\ evict = NoEvict
    /\ IdleFilter
    /\ IdleReq

ConcGet(t, key) ==
    /\ th[t].pc = "idle"
    /\ th[t].calls < MaxCalls
    /\ BeginGet(t, key, "idle")
    /\ UNCHANGED seqVars
    /\ UNCHANGED filterVars
    /\ UNCHANGED reqVars

ConcSet(t, key, value) ==
    /\ th[t].pc = "idle"
    /\ th[t].calls < MaxCalls
    /\ BeginSet(t, key, value, "idle")
    /\ UNCHANGED seqVars
    /\ UNCHANGED filterVars
    /\ UNCHANGED reqVars

ConcStep(t) ==
    /\ CacheStep(t)
    /\ UNCHANGED seqVars
    /\ UNCHANGED filterVars
    /\ UNCHANGED reqVars

NextConc ==
    \E t \in Threads :
        \/ \E key \in ConcKeys : ConcGet(t, key)
        \/ \E key \in ConcKeys : ConcSet(t, key, "v2")
        \/ ConcStep(t)

SpecConc == InitConc /\ [][NextConc]_vars

(***************************************************************************)
(* Spec: arch_graph requests served by the worker threads.  A request      *)
(* resolves the head commit, looks the cache up, and on a miss clones,     *)
(* builds and stores.  Network calls, the build and every dict operation   *)
(* of the cache calls are steps that interleave with the other thread's.   *)
(***************************************************************************)
MaxRequests == 2

\* repository m is a fork of n: it starts at the same commit
Names == {"n", "m"}
\* the requests that arrive: owner/name, max_files, lang, min_weight, node_cap
Requests ==
    { [name |-> "n", max_files |-> 3000, lang |-> "all", min_weight |-> 2,
       node_cap |-> 200],
      [name |-> "n", max_files |-> 3000, lang |-> "python", min_weight |-> 1,
       node_cap |-> 1],
      [name |-> "n", max_files |-> 100, lang |-> "all", min_weight |-> 2,
       node_cap |-> 200],
      [name |-> "m", max_files |-> 3000, lang |-> "all", min_weight |-> 2,
       node_cap |-> 200] }

\* the files of the default branch at a commit; the push adds a Java file
\* that imports a class
ContentAt(sha) ==
    IF sha = "s1"
    THEN PairRepo(<<Imp(2)>>, <<Imp(1), Imp(1), Imp(ExtId(1))>>)
    ELSE PairRepo(<<Imp(2), Imp(2)>>, <<Imp(ExtId(1)), Imp(ExtId(1))>>)
         \o <<JavaFile(60, <<Imp(ExtId(2))>>)>>

\* faulty variant: the checkout is left behind
Rmtree_Skipped(dirs, t) == dirs

\* finally: shutil.rmtree(tmpdir, ignore_errors=True)
Rmtree(dirs, t) == dirs \ {t}

IdleRq ==
    [phase |-> "idle", n |-> 0, name |-> "", max_files |-> 0, lang |-> "",
     min_weight |-> 0, node_cap |-> 0, last_sha |-> NoneVal, cache_key |-> "",
     stored |-> FALSE, others_only |-> FALSE, hit |-> FALSE, tmpdir |-> FALSE,
     cloned |-> FALSE, content_sha |-> "", built |-> FALSE, status |-> 0,
     detail |-> "", failure |-> "", no_commit |-> FALSE, doc |-> NoResp]

\* the request's state with the fields of `r` replaced
RqWith(t, r) == [rq EXCEPT ![t] = [f \in DOMAIN rq[t] |->
                                      IF f \in DOMAIN r THEN r[f] ELSE rq[t][f]]]

\* what a request asks the graph of
Origin(r) ==
    [owner |-> Owner, name |-> r.name, last_sha |-> r.last_sha,
     max_files |-> r.max_files]

Started == rq[1].n + rq[2].n

\* `if cached:` - a stored document is a non-empty dict
Truthy(val) == val.some

InitReq ==
    /\ head = [nm \in Names |-> "s1"]
    /\ rq = [t \in Threads |-> IdleRq]
    /\ tmpdirs = {}
    /\ origin_of = <<>>
    /\ cache = <<>>
    /\ th = [t \in Threads |-> Idle("")]
    /\ gone = {}
    /\ reinserted = FALSE
    /\ clock = 0
    /\ last_access = <<>>
    /\ last_hit = 0
    /\ evict = NoEvict
    /\ IdleFilter

\* a push to the default branch of n
Push ==
    /\ head["n"] = "s1"
    /\ head' = [head EXCEPT !["n"] = "s2"]
    /\ UNCHANGED <<rq, tmpdirs, origin_of>>
    /\ UNCHANGED cacheVars
    /\ UNCHANGED filterVars

\* a worker thread picks a request up
Request(t, r) ==
    /\ rq[t].phase \in {"idle", "done"}
    /\ Started < MaxRequests
    /\ rq' = [rq EXCEPT ![t] =
                [IdleRq EXCEPT !.phase = "resolve", !.n = rq[t].n + 1,
                               !.name = r.name, !.max_files = r.max_files,
                               !.lang = r.lang, !.min_weight = r.min_weight,
                               !.node_cap = r.node_cap]]
    /\ UNCHANGED <<head, tmpdirs, origin_of>>
    /\ UNCHANGED cacheVars
    /\ UNCHANGED filterVars

\* the HTTPException a failure ends the request with: status code and the
\* fixed part of its detail.  failure is what happened: "not_found",
\* "resolve_error" and "resolve_timeout" (lines 1991-2003), "clone_failed"
\* (line 2015), "clone_timeout" (line 2392), "internal" (line 2394)
Reported(failure) ==
    CASE failure = "not_found" ->
            [status |-> 404, detail |-> "Repository not found."]
      [] failure \in {"resolve_error", "resolve_timeout"} ->
            [status |-> 502, detail |-> "Failed to resolve default branch"]
      [] failure = "clone_failed" ->
            [status |-> 502, detail |-> "git clone failed"]
      [] failure = "clone_timeout" ->
            [status |-> 504, detail |-> "Architecture graph timed out"]
      [] OTHER ->
            [status |-> 500, detail |-> "Failed to build architecture graph"]

\* the request ends with the condition reported for `failure`
Fail(t, failure, r) ==
    RqWith(t, r @@ [phase |-> "done", failure |-> failure,
                    status |-> Reported(failure).status,
                    detail |-> Reported(failure).detail])

\* lines 1988-1995: the repository call is answered; a 404 is reported as
\* such, httpx raises on a timeout and raise_for_status on an error status
ResolveRepo(t, outcome) ==
    /\ rq[t].phase = "resolve"
    /\ rq' = CASE outcome = "ok" -> RqWith(t, [phase |-> "branch"])
               [] outcome = "not_found" -> Fail(t, "not_found", <<>>)
               [] outcome = "timeout" -> Fail(t, "resolve_timeout", <<>>)
               [] OTHER -> Fail(t, "resolve_error", <<>>)
    /\ UNCHANGED <<head, tmpdirs, origin_of>>
    /\ UNCHANGED cacheVars
    /\ UNCHANGED filterVars

\* lines 1996-2003: the branch call is answered with the head commit as it
\* is then; an answer other than 200 leaves last_sha None, and httpx raises
\* on a timeout or a connection error
ResolveBranch(t, outcome) ==
    /\ rq[t].phase = "branch"
    /\ rq' = CASE outcome = "sha" ->
                    RqWith(t, [phase |-> "lookup", last_sha |-> Some(head[rq[t].name])])
               [] outcome = "no_sha" ->
                    RqWith(t, [phase |-> "lookup", last_sha |-> NoneVal,
                               no_commit |-> TRUE])
               [] outcome = "timeout" -> Fail(t, "resolve_timeout", <<>>)
               [] OTHER -> Fail(t, "resolve_error", <<>>)
    /\ UNCHANGED <<head, tmpdirs, origin_of>>
    /\ UNCHANGED cacheVars
    /\ UNCHANGED filterVars

\* lines 2005-2006: the key, and the first dict operation of _cache_get
Lookup(t) ==
    /\ rq[t].phase = "lookup"
    /\ LET key == CacheKey(Owner, rq[t].name, rq[t].last_sha, rq[t].max_files)
           origins == {origin_of[cache[i].key] : i \in 1..Len(cache)}
       IN /\ BeginGet(t, key, "got")
          /\ rq' = RqWith(t, [phase |-> "get", cache_key |-> key,
                              stored |-> Origin(rq[t]) \in origins,
                              others_only |->
                                  /\ origins # {}
                                  /\ \A o \in origins : o.last_sha # rq[t].last_sha])
    /\ UNCHANGED <<head, tmpdirs, origin_of>>
    /\ UNCHANGED seqVars
    /\ UNCHANGED filterVars

\* one dict operation of the request's _cache_get or _cache_set
ReqCacheStep(t) ==
    /\ CacheStep(t)
    /\ origin_of' = IF th[t].pc = "set_store"
                    THEN (th[t].key :> Origin(rq[t])) @@ origin_of
                    ELSE origin_of
    /\ UNCHANGED <<head, rq, tmpdirs>>
    /\ UNCHANGED seqVars
    /\ UNCHANGED filterVars

\* lines 2007-2013: if cached: return ArchGraphResponse(**cached); on a
\* miss mkdtemp makes the checkout directory and git clone is started
AfterLookup(t) ==
    /\ rq[t].phase = "get"
    /\ th[t].pc = "got"
    /\ IF Truthy(th[t].val)
       THEN /\ rq' = RqWith(t, [phase |-> "done", hit |-> TRUE, status |-> 200,
                                doc |-> th[t].val.val])
            /\ tmpdirs' = tmpdirs
       ELSE /\ rq' = RqWith(t, [phase |-> "clone", tmpdir |-> TRUE])
            /\ tmpdirs' = tmpdirs \cup {t}
    /\ th' = [th EXCEPT ![t] = Idle("")]
    /\ UNCHANGED <<cache, gone, reinserted>>
    /\ UNCHANGED <<head, origin_of>>
    /\ UNCHANGED seqVars
    /\ UNCHANGED filterVars

\* lines 2013-2015: git clone returns or times out; on failure the finally
\* clause removes the directory and the request ends
Clone(t, outcome) ==
    /\ rq[t].phase = "clone"
    /\ IF outcome = "ok"
       THEN /\ rq' = RqWith(t, [phase |-> "build", cloned |-> TRUE,
                                content_sha |-> head[rq[t].name]])
            /\ tmpdirs' = tmpdirs
       ELSE /\ rq' = Fail(t, IF outcome = "timeout" THEN "clone_timeout"
                              ELSE "clone_failed", <<>>)
            /\ tmpdirs' = Rmtree(tmpdirs, t)
    /\ UNCHANGED <<head, origin_of>>
    /\ UNCHANGED cacheVars
    /\ UNCHANGED filterVars

\* lines 2017-2387: the build, and the first dict operation of _cache_set;
\* an exception in the build ends the request through `except Exception`
\* (lines 2393-2394) and the finally clause
BuildGraph(t) ==
    /\ rq[t].phase = "build"
    /\ \E doc \in BuildOutcomes(ContentAt(rq[t].content_sha), rq[t].lang,
                                rq[t].min_weight, rq[t].node_cap) :
          IF doc.status = "ok"
          THEN /\ rq' = RqWith(t, [phase |-> "set", built |-> TRUE, doc |-> doc])
               /\ BeginSet(t, rq[t].cache_key, doc, "stored")
               /\ tmpdirs' = tmpdirs
          ELSE /\ rq' = Fail(t, "internal", <<>>)
               /\ tmpdirs' = Rmtree(tmpdirs, t)
               /\ UNCHANGED <<cache, th, gone, reinserted>>
    /\ UNCHANGED <<head, origin_of>>
    /\ UNCHANGED seqVars
    /\ UNCHANGED filterVars

\* lines 2388-2399: return resp; finally: shutil.rmtree(tmpdir)
AfterStore(t) ==
    /\ rq[t].phase = "set"
    /\ th[t].pc = "stored"
    /\ rq' = RqWith(t, [phase |-> "done", status |-> 200])
    /\ tmpdirs' = Rmtree(tmpdirs, t)
    /\ th' = [th EXCEPT ![t] = Idle("")]
    /\ UNCHANGED <<cache, gone, reinserted>>
    /\ UNCHANGED <<head, origin_of>>
    /\ UNCHANGED seqVars
    /\ UNCHANGED filterVars

Next ==
    \/ Push
    \/ \E t \in Threads :
        \/ \E r \in Requests : Request(t, r)
        \/ \E outcome \in {"ok", "not_found", "timeout", "error"} :
              ResolveRepo(t, outcome)
        \/ \E outcome \in {"sha", "no_sha", "timeout", "error"} :
              ResolveBranch(t, outcome)
        \/ Lookup(t)
        \/ ReqCacheStep(t)
        \/ AfterLookup(t)
        \/ \E outcome \in {"ok", "fail", "timeout"} : Clone(t, outcome)
        \/ BuildGraph(t)
        \/ AfterStore(t)

Spec == InitReq /\ [][Next]_vars

(***************************************************************************)
(* Properties of one fresh build (SpecFilter)                              *)
(***************************************************************************)
Built == resp.status = "ok"
RespIds == {resp.nodes[i].id : i \in DOMAIN resp.nodes}
NodeCount == Len(resp.nodes)
EdgeCount == Len(resp.edges)
KeptInternal == Cardinality({i \in DOMAIN resp.nodes : resp.nodes[i].type = "internal"})
KeptExternal == Cardinality({i \in DOMAIN resp.nodes : resp.nodes[i].type = "external"})

\* what the build of `req` accumulated and what passed its language filter
ReqAcc == Accumulate(repo, req.lang)
ReqFiltered == LangFilter(ReqAcc, req.lang)
FilteredInternal == Cardinality(ReqFiltered \cap ReqAcc.internal_nodes)
FilteredExternal == Cardinality(ReqFiltered \ ReqAcc.internal_nodes)

\* C1: every edge of the returned document has its source and its target in
\* the returned node list, for every repository, lang, min_weight, node_cap.
C1_NoDanglingEdges ==
    Built => \A i \in DOMAIN resp.edges :
                /\ resp.edges[i].source \in RespIds
                /\ resp.edges[i].target \in RespIds

\* C1 witness: the node cap dropped nodes and edges, and edges remain
C1_Witness ==
    /\ Built /\ req.node_cap > 0
    /\ NodeCount < Cardinality(ReqFiltered)
    /\ EdgeCount > 0
    /\ EdgeCount < Len(EdgeFilter(ReqAcc.edges_map, ReqFiltered, req.min_weight))

\* C2 as claimed: with node_cap positive, the returned graph has at most
\* node_cap nodes.
C2_AtMostNodeCap ==
    (Built /\ req.node_cap > 0) => NodeCount <= req.node_cap

\* C2 amended: with node_cap positive, the returned graph has at most
\* max(node_cap, min(10, k)) nodes, k the number of internal nodes that pass
\* the language filter: the floor of ten internal nodes overrides the cap.
C2_AtMostNodeCapOrFloor ==
    (Built /\ req.node_cap > 0) =>
        NodeCount <= Max(req.node_cap, Min(10, FilteredInternal))

\* C2 witness: ten internal nodes are returned under a cap below ten
C2_Witness ==
    /\ Built /\ req.node_cap > 0 /\ req.node_cap < 10
    /\ FilteredInternal > 10
    /\ NodeCount = 10

\* the node cap stage of `req` keeps every internal node
NoInternalCut ==
    \/ req.node_cap <= 0
    \/ FilteredInternal <= Max(10, req.node_cap \div 2)

\* C3 as claimed: for the same content, lang and node_cap, a build with a
\* larger min_weight never returns more edges.
C3_RaisingMinWeight ==
    Built => \A m2 \in MinWeights :
                m2 > req.min_weight =>
                    \A r2 \in BuildOutcomes(repo, req.lang, m2, req.node_cap) :
                        Len(r2.edges) <= EdgeCount

\* C3 amended: the same, provided the node cap stage drops no internal node
\* (node_cap <= 0, or at most max(10, node_cap // 2) internal nodes pass the
\* language filter).
C3_RaisingMinWeightNoCut ==
    (Built /\ NoInternalCut) =>
        \A m2 \in MinWeights :
            m2 > req.min_weight =>
                \A r2 \in BuildOutcomes(repo, req.lang, m2, req.node_cap) :
                    Len(r2.edges) <= EdgeCount

\* C3 witness: the cap is active and drops external nodes, and a larger
\* min_weight returns strictly fewer edges
C3_Witness ==
    /\ Built /\ NoInternalCut /\ req.node_cap > 0
    /\ NodeCount < Cardinality(ReqFiltered)
    /\ \E m2 \in MinWeights :
          /\ m2 > req.min_weight
          /\ \E r2 \in BuildOutcomes(repo, req.lang, m2, req.node_cap) :
                /\ Len(r2.edges) > 0
                /\ Len(r2.edges) < EdgeCount

\* C4 as claimed: for the same content, lang and min_weight, a build with a
\* smaller node_cap never returns more nodes, zero and negative caps included.
C4_LoweringNodeCap ==
    Built => \A c2 \in NodeCaps :
                c2 > req.node_cap =>
                    \A r2 \in BuildOutcomes(repo, req.lang, req.min_weight, c2) :
                        NodeCount <= Len(r2.nodes)

\* C4 amended: the same for positive values c1 < c2 of node_cap (zero and
\* negative values switch the cap off).
C4_LoweringPositiveNodeCap ==
    (Built /\ req.node_cap > 0) =>
        \A c2 \in NodeCaps :
            c2 > req.node_cap =>
                \A r2 \in BuildOutcomes(repo, req.lang, req.min_weight, c2) :
                    NodeCount <= Len(r2.nodes)

\* C4 witness: a positive cap cuts nodes and a larger cap returns more nodes
C4_Witness ==
    /\ Built /\ req.node_cap > 0
    /\ KeptExternal > 0
    /\ \E c2 \in NodeCaps :
          /\ c2 > req.node_cap
          /\ \E r2 \in BuildOutcomes(repo, req.lang, req.min_weight, c2) :
                NodeCount < Len(r2.nodes)

\* C5: when more internal and more external nodes than node_cap pass the
\* language filter, the result keeps at least ten internal nodes (all of them
\* when fewer than ten exist) and at most node_cap minus the kept internal
\* nodes (never below zero) external nodes.
C5_InternalFloor ==
    (/\ Built /\ req.node_cap > 0
     /\ FilteredInternal > req.node_cap
     /\ FilteredExternal > req.node_cap) =>
        /\ KeptInternal >= Min(10, FilteredInternal)
        /\ KeptExternal <= Max(0, req.node_cap - KeptInternal)

\* C5 witness: eleven internal and two external nodes under node_cap 1:
\* ten internal nodes kept, no external node
C5_Witness ==
    /\ Built /\ req.node_cap > 0
    /\ FilteredInternal > req.node_cap
    /\ FilteredExternal > req.node_cap
    /\ FilteredInternal > 10
    /\ KeptInternal = 10
    /\ KeptExternal = 0

(***************************************************************************)
(* Properties of the cache under sequential calls (SpecCache)              *)
(***************************************************************************)
\* C7: after any sequence of sequential _cache_get and _cache_set calls the
\* cache holds at most _CACHE_LIMIT entries.
C7_CacheBounded == Len(cache) <= _CACHE_LIMIT

\* C7 witness: a set on a full cache has evicted an entry
C7_Witness == evict.happened /\ Len(cache) = _CACHE_LIMIT

\* C8: the entry a _cache_set evicts was accessed (set or successfully read)
\* longer ago than every entry that stays, and it is not the key of a
\* successful read made since the eviction before.
C8_EvictsLeastRecentlyUsed ==
    evict.happened =>
        /\ \A t \in evict.others : evict.stamp < t
        /\ (evict.hit # 0 /\ Cardinality(evict.others) > 1) => evict.key # evict.hit

\* C8 witness: key 1, the oldest entry, was read and key 2 was evicted
C8_Witness ==
    /\ evict.happened
    /\ evict.hit = 1
    /\ evict.key = 2

(***************************************************************************)
(* Properties of the cache under concurrent calls (SpecConc)               *)
(***************************************************************************)
AllIdle == \A t \in Threads : th[t].pc = "idle"

\* C9: with the dict operations of concurrent _cache_get and _cache_set calls
\* interleaved, the cache holds at most _CACHE_LIMIT entries whenever no call
\* is in progress, and no _cache_get puts back an entry that was evicted.
C9_ConcurrentCacheSafe ==
    /\ AllIdle => Len(cache) <= _CACHE_LIMIT
    /\ ~reinserted

(***************************************************************************)
(* Properties of the requests (Spec)                                       *)
(***************************************************************************)
\* the requests whose cache lookup has been decided
Decided == {t \in Threads : rq[t].phase \in {"clone", "build", "set", "done"}
                            /\ rq[t].last_sha # NoneVal}

\* C6: a request is served from the cache, with no checkout, clone or build,
\* exactly when at its lookup an entry was stored for the same owner/name, the
\* same resolved commit SHA and the same max_files; a request whose SHA differs
\* from that of every stored entry misses and goes on to rebuild.
C6_HitExactlyWhenStored ==
    \A t \in Decided :
        /\ rq[t].hit <=> rq[t].stored
        /\ rq[t].hit => (rq[t].phase = "done" /\ rq[t].status = 200
                         /\ ~rq[t].tmpdir /\ ~rq[t].cloned /\ ~rq[t].built)
        /\ rq[t].others_only => ~rq[t].hit
        /\ (~rq[t].hit /\ rq[t].phase = "done") =>
               (rq[t].tmpdir /\ (rq[t].status = 200 => rq[t].cloned /\ rq[t].built))

\* a request was answered from an entry another request stored
C6_Witness ==
    \E t \in Decided :
        /\ rq[t].phase = "done"
        /\ rq[t].hit
        /\ rq[t].stored
        /\ rq[t].doc.status = "ok"

\* C10: the value held under a key never changes while the key stays in the
\* cache, whatever the interleaving of the requests.
C10_StoredValueNeverChanges ==
    [][\A k \in DictKeys(cache) \cap DictKeys(cache') :
           DictGet(cache', k) = DictGet(cache, k)]_vars

\* C11: every checkout a request created is gone when the request has
\* returned, whether it ended in success, clone failure, clone timeout or an
\* unexpected error; only requests between clone and return own a checkout,
\* and a cache hit creates none.
C11_CheckoutRemoved ==
    /\ \A t \in Threads :
          /\ rq[t].phase \in {"idle", "done"} => t \notin tmpdirs
          /\ rq[t].hit => ~rq[t].tmpdir
    /\ tmpdirs \subseteq
          {t \in Threads : rq[t].phase \in {"clone", "build", "set"}}

\* C11 witness: one request has ended in an unexpected error and another in
\* a clone failure or timeout, both after creating a checkout; none is left
C11_Witness ==
    /\ tmpdirs = {}
    /\ \E t \in Threads :
          rq[t].phase = "done" /\ rq[t].tmpdir /\ rq[t].status = 500
    /\ \E t \in Threads :
          rq[t].phase = "done" /\ rq[t].tmpdir /\ rq[t].status \in {502, 504}

\* the four failure kinds: a timeout of either network step, not found,
\* clone failure, internal error
Kind(failure) ==
    IF failure \in {"resolve_timeout", "clone_timeout"} THEN "timeout"
    ELSE failure
FailureKinds == {"timeout", "not_found", "clone_failed", "internal"}
Failed == {t \in Threads : rq[t].phase = "done"
                           /\ Kind(rq[t].failure) \in FailureKinds}
Condition(t) == [status |-> rq[t].status, detail |-> rq[t].detail]

\* C12: a timeout of the commit resolution or of the clone ends the request
\* with the timeout condition (504), and requests that failed in different
\* ones of the four kinds never report the same condition.
C12_TimeoutDistinct ==
    /\ \A t \in Failed :
          Kind(rq[t].failure) = "timeout" => Condition(t) = Reported("clone_timeout")
    /\ \A t \in Failed, u \in Failed :
          Kind(rq[t].failure) # Kind(rq[u].failure) => Condition(t) # Condition(u)

\* C13: a request whose branch lookup returned no commit does no cache
\* lookup, no clone, no build and no cache write, and ends with a reported
\* failure.
C13_UnresolvedShaFails ==
    \A t \in Threads :
        rq[t].no_commit =>
            /\ rq[t].phase \notin {"get", "clone", "build", "set"}
            /\ rq[t].cache_key = ""
            /\ ~rq[t].tmpdir /\ ~rq[t].cloned /\ ~rq[t].built
            /\ rq[t].phase = "done" => rq[t].failure # ""

\* C14: a request whose commit resolution and clone succeeded never ends
\* with the internal-error condition, whatever the sampled files hold.
C14_ExtractionNeverFails ==
    \A t \in Threads :
        (rq[t].cloned /\ rq[t].phase = "done") =>
            (rq[t].failure # "internal" /\ rq[t].status = 200)

\* the files whose imports the build of `req` extracts
Extracted ==
    {i \in DOMAIN repo :
        /\ repo[i].readable
        /\ \/ repo[i].lang = "python" /\ include_py(req.lang)
           \/ repo[i].lang = "js" /\ include_js(req.lang)}

\* the import statements of file i that name d
Occurrences(i, d) ==
    Cardinality({k \in DOMAIN repo[i].imports : repo[i].imports[k].dst = d})

\* edges_map.get((s, d), 0)
WeightOf(edges_map, s, d) ==
    IF \E k \in DOMAIN edges_map : edges_map[k].src = s /\ edges_map[k].dst = d
    THEN edges_map[CHOOSE k \in DOMAIN edges_map :
                       edges_map[k].src = s /\ edges_map[k].dst = d].w
    ELSE 0

\* C15: before the weight filter, the weight recorded for a (source, target)
\* pair is the number of import statements of the source file that name the
\* target: repeated imports each add 1, none is counted twice, and no other
\* pair is recorded for a python or JS/TS file.
C15_WeightCountsOccurrences ==
    Built =>
        /\ \A i \in Extracted :
              \A k \in DOMAIN repo[i].imports :
                  WeightOf(ReqAcc.edges_map, repo[i].id, repo[i].imports[k].dst)
                      = Occurrences(i, repo[i].imports[k].dst)
        /\ \A e \in Range(ReqAcc.edges_map) :
              e.src \in {repo[i].id : i \in Extracted} =>
                  \E i \in Extracted :
                      /\ repo[i].id = e.src
                      /\ Occurrences(i, e.dst) > 0

\* every document a fresh build of `req` over `repo` can return: the order in
\* which the cap stage meets nodes of equal degree is the iteration order of
\* a set of strings, which changes with the interpreter's hash seed
FreshBuilds == BuildOutcomes(repo, req.lang, req.min_weight, req.node_cap)

\* C16: any two fresh builds over the same content with the same parameters
\* return the same set of nodes and the same set of edges, ties at the node
\* cap's cut-off included.
C16_FreshBuildsAgree ==
    Built =>
        \A d \in FreshBuilds :
            /\ {d.nodes[i].id : i \in DOMAIN d.nodes} = RespIds
            /\ Range(d.edges) = Range(resp.edges)

\* the pairs the build of `req` recorded exactly once whose two ends are in
\* the returned node list
SeenOnce ==
    {e \in Range(ReqAcc.edges_map) :
        e.w = 1 /\ e.src \in RespIds /\ e.dst \in RespIds}

Returned(e) ==
    [source |-> e.src, target |-> e.dst, weight |-> e.w] \in Range(resp.edges)

\* C17: every returned edge has weight >= max(1, min_weight); a pair seen
\* once is returned exactly when min_weight <= 1 (so with 1 and not with the
\* default 2); and the weight filter removes no node: without a node cap the
\* node list is what passed the language filter.
C17_WeightThreshold ==
    Built =>
        /\ \A e \in Range(resp.edges) : e.weight >= Max(1, req.min_weight)
        /\ \A e \in SeenOnce : Returned(e) <=> req.min_weight <= 1
        /\ req.node_cap <= 0 => RespIds = ReqFiltered

\* C17 witness: with min_weight 2 a pair seen once is dropped while both its
\* ends stay and a heavier edge is returned, and the build with min_weight 1
\* over the same content returns the pair
C17_Witness ==
    /\ Built /\ req.min_weight = 2 /\ req.node_cap <= 0
    /\ \E e \in SeenOnce : ~Returned(e)
    /\ \E e \in Range(resp.edges) : e.weight >= 2
    /\ \E e \in SeenOnce :
          \A d \in BuildOutcomes(repo, req.lang, 1, req.node_cap) :
              [source |-> e.src, target |-> e.dst, weight |-> 1] \in Range(d.edges)

\* the selector a synonym stands for
Canonical(lang) ==
    CASE LangNorm(lang) = "py" -> "python"
      [] LangNorm(lang) = "javascript" -> "js"
      [] LangNorm(lang) = "golang" -> "go"
      [] OTHER -> LangNorm(lang)

\* C18: a build with a synonym of a selector (py, javascript, golang, or a case or
\* whitespace variant of a selector or of all) returns the document of the
\* build with the canonical selector over the same content.
C18_SynonymsAgree ==
    Built =>
        resp \in BuildOutcomes(repo, Canonical(req.lang), req.min_weight,
                               req.node_cap)

\* the packages a scanned JS/TS file imports (either way) for which its
\* package.json declares a version, with that version
Declared ==
    UNION {{[name |-> repo[i].imports[k].dst,
             version |-> repo[i].deps[repo[i].imports[k].dst]] :
                k \in {m \in DOMAIN repo[i].imports :
                          /\ ~repo[i].imports[m].rel
                          /\ repo[i].imports[m].dst \in DOMAIN repo[i].deps}} :
           i \in {j \in Extracted : repo[j].lang = "js"}}

\* C19: the returned node of a package that a JS/TS file imports, statically
\* or by require, and whose version the nearest package.json declares, carries
\* {manager npm, name, version}.
C19_PackageProvenance ==
    Built =>
        \A d \in Declared :
            \A i \in DOMAIN resp.nodes :
                resp.nodes[i].id = d.name =>
                    resp.nodes[i].pkg = [manager |-> "npm", name |-> d.name,
                                         version |-> d.version]

\* the Go files the build of `req` scans
GoScanned ==
    {i \in DOMAIN repo :
        repo[i].lang = "go" /\ repo[i].readable /\ include_go(req.lang)}

\* an import path matches the module: it is the module path or lies under it
UnderModule(go_module, spec) ==
    /\ go_module # <<>>
    /\ \/ spec = go_module
       \/ StartsWith(spec, go_module \o <<"/">>)

\* the id the claim gives the target of an import path
ModuleRelative(go_module, spec) ==
    IF UnderModule(go_module, spec)
    THEN SubSeq(spec, Len(go_module) + 2, Len(spec))
    ELSE spec

\* C20: for every import of a scanned Go file, single-line or in a block, the
\* build records an edge to the module-relative id, marked internal, when the
\* path matches the go.mod module, and to the path itself, external,
\* otherwise.
C20_GoModuleRewrite ==
    Built =>
        \A i \in GoScanned :
            \A k \in DOMAIN repo[i].imports :
                LET spec == repo[i].imports[k].spec
                    dst == GoId(ModuleRelative(repo[i].module, spec))
                IN /\ WeightOf(ReqAcc.edges_map, repo[i].id, dst) > 0
                   /\ dst \in ReqAcc.internal_nodes
                          <=> UnderModule(repo[i].module, spec)

\* the build of `req` has ended, with a document or with an error
Ended == resp.status # "none"

\* the Java files the build of `req` scans
JavaScanned ==
    {i \in DOMAIN repo :
        repo[i].lang = "java" /\ repo[i].readable /\ include_java(req.lang)}

\* C21: the build returns a document in which the target of every import of
\* a scanned Java file is internal exactly when a scanned Java file declares
\* that id as its package, and external otherwise.
C21_JavaInternalIffDeclared ==
    Ended =>
        \A i \in JavaScanned :
            \A k \in DOMAIN repo[i].imports :
                /\ Built
                /\ \E n \in DOMAIN resp.nodes :
                      /\ resp.nodes[n].id = repo[i].imports[k].dst
                      /\ resp.nodes[n].type = "internal"
                            <=> \E j \in JavaScanned :
                                   repo[j].id = repo[i].imports[k].dst

\* the C# files the selector of `req` includes
CsIncluded ==
    {i \in DOMAIN repo :
        repo[i].lang = "csharp" /\ repo[i].readable /\ include_cs(req.lang)}

\* C22: every included C# file contributes: its namespace is a node of the
\* accumulated graph, and the weight of the edge from it to a namespace is
\* the number of its using declarations that name that namespace.
C22_CsharpContributes ==
    Built =>
        \A i \in CsIncluded :
            /\ repo[i].id \in ReqAcc.nodes_set
            /\ \A k \in DOMAIN repo[i].imports :
                  WeightOf(ReqAcc.edges_map, repo[i].id, repo[i].imports[k].dst)
                      = Occurrences(i, repo[i].imports[k].dst)

\* the requests that were answered with a graph
Answered == {t \in Threads : rq[t].phase = "done" /\ rq[t].status = 200}

\* a node's language tag passes a selector
PassesSelector(lang, tag) ==
    \/ Canonical(lang) = "all"
    \/ tag = Canonical(lang)
    \/ Canonical(lang) = "js" /\ tag = "npm"

InternalIn(doc) ==
    Cardinality({i \in DOMAIN doc.nodes : doc.nodes[i].type = "internal"})

\* C23: every graph a request receives, built for it or taken from the cache,
\* satisfies that request's own filters: edge weights >= max(1, min_weight),
\* node tags that pass lang, and with a positive node_cap at most
\* max(node_cap, min(10, internal nodes)) nodes.
C23_ReceivedGraphFitsRequest ==
    \A t \in Answered :
        /\ \A e \in Range(rq[t].doc.edges) : e.weight >= Max(1, rq[t].min_weight)
        /\ \A n \in Range(rq[t].doc.nodes) : PassesSelector(rq[t].lang, n.lang)
        /\ rq[t].node_cap > 0 =>
               Len(rq[t].doc.nodes)
                   <= Max(rq[t].node_cap, Min(10, InternalIn(rq[t].doc)))

\* the same files met by the walk in the opposite order
Reverse(files) == [i \in 1..Len(files) |-> files[Len(files) + 1 - i]]

\* C24: the returned document does not depend on the order in which the
\* files are processed: the build over the same files in another order (here
\* the reversed one) returns the same nodes, with type and metadata, and the
\* same sequence of edges.
C24_OrderIndependent ==
    Built =>
        resp \in BuildOutcomes(Reverse(repo), req.lang, req.min_weight,
                               req.node_cap)

\* C25: within one build the language tag of a node id is fixed when the id
\* is first tagged: no later observation, of any language's extractor or of
\* the npm provenance path, changes or removes it.
C25_TagFixedAtFirstObservation ==
    [][\A n \in DOMAIN accum.node_meta :
          /\ n \in DOMAIN accum'.node_meta
          /\ accum'.node_meta[n] = accum.node_meta[n]]_vars

\* C25 witness: a build is over in which a package python had tagged was
\* then required by a JS file whose package.json declares its version, and
\* kept the python tag
C25_Witness ==
    /\ Built
    /\ Len(repo) = 3
    /\ \E k \in DOMAIN repo[1].imports : repo[1].imports[k].dst = ExtId(1)
    /\ \E k \in DOMAIN repo[2].imports :
          repo[2].imports[k] = Stmt(ExtId(1), FALSE, "require")
    /\ ExtId(1) \in DOMAIN repo[2].deps
    /\ req.lang = "all"
    /\ accum.node_meta[ExtId(1)] = "python"

\* C26: within one build the classification of a node id is decided by its
\* first observation: a node first observed as external is never made
\* internal by a later observation, and an internal node never stops being
\* internal.
C26_ClassificationFixed ==
    [][/\ accum.internal_nodes \subseteq accum'.internal_nodes
       /\ \A n \in accum.nodes_set \ accum.internal_nodes :
             n \notin accum'.internal_nodes]_vars

\* the sampled files of the one language the selector names whose node the
\* accumulation recorded
SourcesOfSelected ==
    {i \in DOMAIN repo :
        /\ Canonical(req.lang) = repo[i].lang
        /\ repo[i].id \in ReqAcc.nodes_set}

\* C27: at the end of the accumulation every node id, of a source file or of
\* an import target, has a language tag; consequently, when the selector
\* names one language, every sampled source file of that language is in the
\* returned graph.
C27_EveryNodeTagged ==
    Built =>
        /\ \A n \in ReqAcc.nodes_set : n \in DOMAIN ReqAcc.node_meta
        /\ \A i \in SourcesOfSelected : repo[i].id \in RespIds

\* directory j of the tree is a denylisted directory or lies in one
RECURSIVE Beneath(_, _)
Beneath(dirs, j) ==
    /\ j # 0
    /\ \/ dirs[j].bn \in Denylist
       \/ Beneath(dirs, dirs[j].parent)

\* the files the walk has put in its lists so far
Placed == UNION {Range(walk.buckets[b]) : b \in DOMAIN walk.buckets}

\* C28: no file beneath a denylisted directory, at any depth, is ever placed
\* in a bucket.
C28_NothingBeneathDenylisted ==
    \A p \in Placed : ~Beneath(walk.dirs, p[1])

PlacedFrom(j) == Cardinality({p \in Placed : p[1] = j})

\* C29: at every point of the walk the total over the seven buckets is at
\* most max(100, min(10000, max_files)), at most 20 files of any one
\* directory have been accepted, and the walk has stopped once the total
\* has reached the cap.
C29_CapsHold ==
    walk.phase # "idle" =>
        /\ Cardinality(Placed) <= Max(100, Min(10000, walk.max_files))
        /\ \A j \in DOMAIN walk.dirs : PlacedFrom(j) <= 20
        /\ Cardinality(Placed) >= Max(100, Min(10000, walk.max_files))
               => walk.phase = "done"

\* C29 witness: the walk stopped with the cap of 101 exactly reached, before
\* the last directory, after taking 20 files from a directory that holds
\* more recognized files than that
C29_Witness ==
    /\ walk.phase = "done"
    /\ walk.max_files = 101
    /\ Cardinality(Placed) = 101
    /\ walk.d < Len(walk.dirs)
    /\ PlacedFrom(1) = 20
    /\ Cardinality({k \in DOMAIN walk.dirs[1].files :
                        Recognized(walk.dirs[1].files[k])}) > 20

\* the file the specifier of `resolved` designates: the first candidate, in
\* the order literal path, path plus each source extension, index file of
\* the directory, that is a source file of the clone
TargetOf(r) ==
    IF r.kind = "js" /\ r.spec.head = "/"
    THEN Path(r.spec.dir, r.spec.base, r.spec.ext)
    ELSE JoinNorm(r.file_dir,
                  IF r.spec.head = "/" THEN [r.spec EXCEPT !.head = ""]
                  ELSE r.spec)

Designated(r) ==
    LET exts == SourceExts(r.kind)
        target == TargetOf(r)
        candidates ==
            <<target>>
            \o [i \in DOMAIN exts |-> WithExt(target, exts[i])]
            \o [i \in DOMAIN exts |-> IndexIn(target, exts[i])]
    IN SelectSeq(candidates,
                 LAMBDA c : c \in r.disk /\ c.ext \in Range(exts))

\* C30: a relative or rooted JS/TS, PHP or Ruby specifier that designates an
\* existing source file, with or without its extension, resolves to the
\* node id that file has as an importing node (its path without the
\* extension); of several existing candidates the first one, in the order
\* literal path, path plus extension, index file, supplies the id.
C30_ResolvesToFileNode ==
    (resolved # <<>> /\ resolved.dst.some /\ Designated(resolved) # <<>>) =>
        resolved.dst.val = Designated(resolved)[1].dir
                               \o <<Designated(resolved)[1].base>>

====
